---- MODULE Spec2Model ----
(***************************************************************************)
(* A model of lorenzhs/reservoir: the order-statistic B+ tree              *)
(* (reservoir/btree.hpp), the distributed selection protocols              *)
(* (reservoir/ams_select.hpp, reservoir/ams_select_multi.hpp with the      *)
(* helpers of reservoir/select_helpers.hpp) and the reservoir engine       *)
(* (reservoir/reservoir.hpp).                                              *)
(*                                                                         *)
(* The module holds three state machines that share no state:              *)
(*   SpecSel   one selection call on NumPE workers,                        *)
(*   SpecRes   the reservoir engine processing batches on NumPE workers,   *)
(*   SpecTree  one B+ tree under insert / erase, beside a reference        *)
(*             sorted multiset.                                            *)
(* Keys are the integers 1..MaxKey; the two values the selection uses as   *)
(* "no pivot" marks, std::numeric_limits<Key>::min() and ::max(), are      *)
(* KeyMin and KeyMax, below and above every key.                           *)
(***************************************************************************)
EXTENDS Integers, Sequences, FiniteSets, TLC

(***************************************************************************)
(* Bounds of the model.                                                    *)
(***************************************************************************)
\* number of workers (PEs) of the communicator
NumPE == 2
\* keys are 1..MaxKey
MaxKey == 3
\* largest tree of one worker at the start of a selection call
MaxLen == 3
\* d, the number of pivots per round of ams_select_multi
NumPivots == 2

\* the reservoir engine: largest sample size k, most items one worker gets
\* in one batch, number of batches
MaxSample == 2
MaxBatch == 6
NumBatches == 2
\* the keys the engine draws for the items it inserts are 1..MaxDraw
MaxDraw == 2
\* reservoir::insert fills the tree up to max(3k/2, k + 500) items before
\* it starts local thresholding, and thresholds again at
\* max(11k/10, k + 250); the two offsets, scaled to the model's tree sizes
ThreshSlack1 == 2
ThreshSlack2 == 1

\* the B+ tree: slots per leaf and per inner node (the traits' leaf_slots
\* and inner_slots), the most items the tree is grown to and the largest
\* key inserted into it (15 items of 2 keys reach three levels and every
\* split, shift and merge)
leaf_slotmax == 4
inner_slotmax == 4
MaxSize == 15
MaxTreeKey == 2

PE == 0 .. (NumPE - 1)
Keys == 1 .. MaxKey
DrawKeys == 1 .. MaxDraw
\* std::numeric_limits<Key>::min()
KeyMin == 0
\* std::numeric_limits<Key>::max()
KeyMax == MaxKey + 1
\* every value a Key variable can hold
AnyKey == KeyMin .. KeyMax

(***************************************************************************)
(* Small helpers.                                                          *)
(***************************************************************************)
Min2(a, b) == IF a <= b THEN a ELSE b
Max2(a, b) == IF a >= b THEN a ELSE b
\* F applied to v: the value v is computed once, whatever the number of
\* places F uses it in
Bind(v, F(_)) == F(v)
SetMin(S) == CHOOSE x \in S : \A y \in S : x <= y
SetMax(S) == CHOOSE x \in S : \A y \in S : x >= y

RECURSIVE SumTo(_, _)
\* f[0] + ... + f[n]
SumTo(f, n) == IF n < 0 THEN 0 ELSE f[n] + SumTo(f, n - 1)

SortedSeqs(n) == {s \in [1 .. n -> Keys] : \A i \in 1 .. (n - 1) : s[i] <= s[i + 1]}
\* the in-order key sequences of the trees of at most n elements
SortedUpTo(n) == UNION {SortedSeqs(m) : m \in 0 .. n}

VARIABLES
    \* ---- SpecSel ----
    variant,    \* "single" (ams_select) or "multi" (ams_select_multi)
    tree,       \* tree[w]: in-order key sequence of worker w's tree (the Seq)
    req,        \* the (kmin, kmax) every worker passes to operator()
    pe,         \* pe[w]: worker w's locals, position and pending collective
    \* ---- SpecRes (with the four above; tree[w] is reservoir_, req.kmin is size_) ----
    threshold_, \* threshold_[w]: the threshold worker w holds
    batch_id_,  \* batch_id_[w]: number of batches worker w has completed
    smallest,   \* the size_ smallest keys inserted into any tree so far, sorted
    \* ---- SpecTree ----
    bt,         \* the BTree object: nodes (the heap of nodes), root_, head_leaf_, tail_leaf_
    ref,        \* the reference multiset, as a sorted sequence
    lastop,     \* the operation applied last, and whether the tree was
    erased,     \* ever erased from
    \* ---- SpecSplit, SpecJoin (with the four above) ----
    tr1,        \* a second and a third BTree object (root_, head_leaf_,
    tr2,        \* tail_leaf_) whose nodes live in the heap bt.nodes
    arg,        \* the key or rank the last split was asked for; in SpecCopy
                \* the number of copy assignments, after a split the members
                \* of the tree right
    \* ---- SpecSkip (with tree, threshold_) ----
    batch       \* the batch insert() is working through on one worker

resVars == <<threshold_, batch_id_, smallest, batch>>
btVars == <<bt, ref, lastop, erased, tr1, tr2, arg>>
vars == <<variant, tree, req, pe, threshold_, batch_id_, smallest, bt, ref, lastop, erased, tr1, tr2, arg, batch>>

\* no batch is being processed.  items are the weights of the batch's items,
\* it the position insert() has reached (0-based, end is Len(items)); from,
\* fresh, skip, consumed and keywt describe the last call of insert_skip:
\* the position it was called with, whether the item there had not been
\* examined before the call, the skip value it drew, the positions whose
\* weight it subtracted from the skip value (net of the undone block), and
\* the weight it computed the inserted key from (0 if it inserted none)
NoBatch ==
    [items |-> <<>>, it |-> 0, from |-> -1, fresh |-> FALSE, skip |-> 0,
     consumed |-> {}, keywt |-> 0]

\* a BTree after construction: no node, root_ = head_leaf_ = tail_leaf_ =
\* nullptr (0).  fix is not a member: it collects the names of the splits,
\* shifts and merges the running operation has made.
EmptyTree ==
    [nodes |-> <<>>, root_ |-> 0, head_leaf_ |-> 0, tail_leaf_ |-> 0, fix |-> {}]
\* the running operation has called the function name
Called(T, name) == [T EXCEPT !.fix = @ \cup {name}]
\* the tree as an operation finds it
Entering(T) == [T EXCEPT !.fix = {}]

\* the B+ tree of SpecTree is not used
\* the members of a BTree after construction
NoHdr == [root_ |-> 0, head_leaf_ |-> 0, tail_leaf_ |-> 0]
NoTree ==
    /\ bt = EmptyTree /\ ref = <<>> /\ lastop = "none" /\ erased = FALSE
    /\ tr1 = NoHdr /\ tr2 = NoHdr /\ arg = 0

(***************************************************************************)
(* The sorted sequence a selector works on.  An iterator is the in-order   *)
(* position it designates, 0 .. size, with end() = size.                   *)
(***************************************************************************)
SeqSize(t) == Len(t)
SeqEnd(t) == Len(t)
SeqFindRank(t, rank) == IF rank >= SeqSize(t) THEN SeqEnd(t) ELSE rank
\* (rank, iterator) of the first element with key >= key, (size, end) if none
SeqRankOfLowerBound(t, key) == Cardinality({i \in 1 .. Len(t) : t[i] < key})
\* an upper bound that is one past the lower bound whether or not the key
\* is present
RankOfUpperBoundOffByOne(t, key) == Min2(SeqRankOfLowerBound(t, key) + 1, SeqSize(t))
\* (rank, iterator) of the first element with key > key, (size, end) if none
SeqRankOfUpperBound(t, key) == Cardinality({i \in 1 .. Len(t) : t[i] <= key})
\* it->first: the values a read through iterator it can yield; reading
\* through end() reads a slot that holds no element
get_key(t, it) == IF it < SeqSize(t) THEN {t[it + 1]} ELSE AnyKey

(***************************************************************************)
(* A worker inside a selection call.  pc is the point the worker has       *)
(* reached; a worker with waiting = TRUE has entered the collective coll   *)
(* and is blocked in it; rcv is what the collective handed back.           *)
(***************************************************************************)
NoColl == [op |-> "none", val |-> <<>>]

IdleWorker ==
    [pc |-> "start", waiting |-> FALSE, coll |-> NoColl, rcv |-> <<>>,
     kmin |-> 0, kmax |-> 0, min_idx |-> 0, max_idx |-> 0, global_size |-> 0,
     bounds |-> <<>>, target |-> 0, res_it |-> 0, res_rank |-> 0]

\* the worker enters collective op with contribution val; it resumes at pc
Post(s, pc, op, val) ==
    [s EXCEPT !.pc = pc, !.waiting = TRUE, !.coll = [op |-> op, val |-> val],
              !.rcv = <<>>]
\* a failed tlx_die_unless that lets the worker return (begin(), 0)
DieReturning(s) ==
    [IdleWorker EXCEPT !.pc = "done"]
\* tlx_die_unless failed: the process aborts
Die(s) ==
    [IdleWorker EXCEPT !.pc = "dead"]

\* the selector returns the pair (it, rank)
Return(s, it, rank) ==
    [IdleWorker EXCEPT !.pc = "done", !.res_it = it, !.res_rank = rank]

\* the keys pivot draw number idx can yield in Case 1; an index outside the
\* local range yields numeric_limits<Key>::max()
Case1Pivot(t, min_idx, local_size, pivot_idx) ==
    IF pivot_idx < local_size
    THEN get_key(t, SeqFindRank(t, min_idx + pivot_idx))
    ELSE {KeyMax}

\* the same in Case 2, counted down from max_idx; outside the local range
\* the draw yields numeric_limits<Key>::min()
Case2Pivot(t, max_idx, local_size, pivot_idx) ==
    IF pivot_idx < local_size
    THEN get_key(t, SeqFindRank(t, max_idx - pivot_idx - 1))
    ELSE {KeyMin}

\* The values of pidx_dist(rng_).  The geometric distribution takes every
\* value >= 0 when 0 < p < 1; local_size stands for all indices outside the
\* local range.  p = 1 (Case 2 with global_size = kmax) always yields 0.
PivotIdx(local_size, pIsOne) == IF pIsOne THEN {0} ELSE 0 .. local_size

\* select() of ams_select (d = 1) and of ams_select_multi (d = NumPivots)
\* up to the first collective of the round: the set of next worker states
select(s, t, d, kmin, kmax, min_idx, max_idx, global_size) ==
    IF ~(max_idx >= min_idx) \/ ~(kmin <= kmax /\ kmin <= global_size)
    THEN {Die(s)}
    ELSE
      LET local_size == max_idx - min_idx
          s1 == [s EXCEPT !.kmin = kmin, !.kmax = kmax, !.min_idx = min_idx,
                          !.max_idx = max_idx, !.global_size = global_size,
                          !.bounds = <<>>, !.target = 0]
      IN IF kmin = 1 \/ kmax = 1
         THEN {Post(s1, "after_term", "min", <<pv>>) :
                  pv \in IF local_size > 0
                         THEN get_key(t, SeqFindRank(t, min_idx))
                         ELSE {KeyMax}}
         ELSE IF kmin < global_size - kmax
         THEN LET draws == UNION {Case1Pivot(t, min_idx, local_size, i) :
                                     i \in PivotIdx(local_size, FALSE)}
              IN {Post(s1, "after_pivot", "min", pv) : pv \in [1 .. d -> draws]}
         ELSE LET draws == UNION {Case2Pivot(t, max_idx, local_size, i) :
                                     i \in PivotIdx(local_size, global_size = kmax)}
              IN {Post(s1, "after_pivot", "max", pv) : pv \in [1 .. d -> draws]}

\* get_bounds<do_global_ops>: local ranks and iterators of the pivot inside
\* [min_idx, max_idx).  red names the all_reduce the call performs on the
\* replacement pivot ("none" if it performs none) and newpivot the values
\* the worker can contribute to it.
get_bounds(do_global_ops, t, pivot, min_idx, max_idx, min_it, max_it) ==
    LET local_size == max_idx - min_idx
    IN IF pivot = KeyMin
       THEN IF local_size = 0
            THEN [ub_pos |-> 0, lb_pos |-> 0, ub_it |-> min_it, lb_it |-> min_it,
                  red |-> IF do_global_ops THEN "max" ELSE "none",
                  newpivot |-> {pivot}]
            ELSE [ub_pos |-> local_size, lb_pos |-> local_size,
                  ub_it |-> max_it, lb_it |-> max_it,
                  red |-> IF do_global_ops THEN "max" ELSE "none",
                  newpivot |-> IF do_global_ops THEN get_key(t, max_it)
                               ELSE {pivot}]
       ELSE IF pivot = KeyMax
       THEN [ub_pos |-> 0, lb_pos |-> 0, ub_it |-> min_it, lb_it |-> min_it,
             red |-> IF do_global_ops THEN "min" ELSE "none",
             newpivot |-> IF do_global_ops /\ local_size > 0
                          THEN get_key(t, min_it) ELSE {pivot}]
       ELSE
         LET ub0 == SeqRankOfUpperBound(t, pivot) - min_idx
             lb0 == SeqRankOfLowerBound(t, pivot) - min_idx
             ubit0 == SeqRankOfUpperBound(t, pivot)
             lbit0 == SeqRankOfLowerBound(t, pivot)
             \* degenerate cases of the upper bound
             ub1 == IF ub0 < 0 THEN 0 ELSE IF ub0 > local_size THEN local_size ELSE ub0
             lb1 == IF ub0 < 0 THEN 0 ELSE IF ub0 > local_size THEN local_size ELSE lb0
             ubit1 == IF ub0 < 0 THEN min_it ELSE IF ub0 > local_size THEN max_it ELSE ubit0
             lbit1 == IF ub0 < 0 THEN min_it ELSE IF ub0 > local_size THEN max_it ELSE lbit0
         IN [ub_pos |-> ub1,
             lb_pos |-> IF lb1 < 0 THEN 0 ELSE lb1,
             ub_it |-> ubit1,
             lb_it |-> IF lb1 < 0 THEN min_it ELSE lbit1,
             red |-> "none", newpivot |-> {pivot}]

\* the four values get_bounds returns
BoundOf(b) ==
    [ub_pos |-> b.ub_pos, lb_pos |-> b.lb_pos, ub_it |-> b.ub_it, lb_it |-> b.lb_it]

\* find_eq_pos up to its scan
find_eq_pos(s, global_ub, b, global_lb, target_count) ==
    IF global_lb + 1 >= global_ub
    THEN IF target_count = 0
         THEN Return(s, b.lb_it, s.min_idx + b.lb_pos)
         ELSE IF target_count = 1
         THEN Return(s, b.ub_it, s.min_idx + b.ub_pos)
         ELSE Die(s)
    ELSE IF ~(b.ub_pos - b.lb_pos >= 0)
    THEN Die(s)
    ELSE Post([s EXCEPT !.bounds = <<b>>, !.target = target_count],
              "after_scan", "scan", <<b.ub_pos - b.lb_pos>>)

\* find_eq_pos after its scan returned prefsum
find_eq_pos_scan(s, prefsum) ==
    LET b == s.bounds[1]
        my_count == b.ub_pos - b.lb_pos
        target_count == s.target
        count == target_count - prefsum + my_count
    IN IF prefsum < target_count
       THEN Return(s, b.ub_it, s.min_idx + b.ub_pos)
       ELSE IF prefsum - my_count > target_count
       THEN Return(s, b.lb_it, s.min_idx + b.lb_pos)
       \* "return some": the iterator handed back is the copy taken before
       \* std::advance moved lb_it
       ELSE Return(s, b.lb_it, s.min_idx + b.lb_pos + count)

\* ams_select::select after global_bound returned (global_ub, global_lb)
select_single_bound(s, t, global_lb, global_ub) ==
    LET b == s.bounds[1]
    IN IF ~(0 <= global_lb /\ global_lb <= s.global_size)
          \/ ~(0 <= global_ub /\ global_ub <= s.global_size)
       THEN {Die(s)}
       ELSE IF global_ub < s.kmin
       THEN select(s, t, 1, s.kmin - global_ub, s.kmax - global_ub,
                   s.min_idx + b.ub_pos, s.max_idx, s.global_size - global_ub)
       ELSE IF global_lb > s.kmax
       THEN select(s, t, 1, s.kmin, s.kmax, s.min_idx, s.min_idx + b.lb_pos,
                   global_lb)
       ELSE {find_eq_pos(s, global_ub, b, global_lb, s.kmin - global_lb)}
\* an index function that reads the upper bound of pivot i from the slot of
\* its lower bound
UbidxOfLb(i) == 2 * i + 2
\* gbounds_ of ams_select_multi: ubidx(i) = 2i, lbidx(i) = 2i + 1 for the
\* pivots i = 0 .. d-1, kept here at positions 1 .. 2d
ubidx(i) == 2 * i + 1
\* an index function that reads the lower bound of pivot i from the slot of
\* its upper bound
LbidxOfUb(i) == 2 * i + 1
lbidx(i) == 2 * i + 2

\* the pivot the scan over i = 0 .. d-1 keeps as best_ub_idx (-1 if none):
\* the first one with the smallest kmin - global_ub among global_ub < kmin
best_ub_idx(gbounds, d, kmin) ==
    LET cand == {i \in 0 .. (d - 1) : gbounds[ubidx(i)] < kmin}
    IN IF cand = {} THEN -1
       ELSE SetMin({i \in cand : \A j \in cand :
                       kmin - gbounds[ubidx(i)] <= kmin - gbounds[ubidx(j)]})

\* likewise best_lb_idx among global_lb > kmax
best_lb_idx(gbounds, d, kmax) ==
    LET cand == {i \in 0 .. (d - 1) : gbounds[lbidx(i)] > kmax}
    IN IF cand = {} THEN -1
       ELSE SetMin({i \in cand : \A j \in cand :
                       gbounds[lbidx(i)] - kmax <= gbounds[lbidx(j)] - kmax})

\* ams_select_multi::select after the all_reduce of gbounds_
select_multi_bound(s, t, d, gbounds) ==
    LET hits == {i \in 0 .. (d - 1) :
                    gbounds[ubidx(i)] >= s.kmin /\ gbounds[lbidx(i)] <= s.kmax}
    IN IF hits # {}
       THEN LET i == SetMin(hits)
                global_ub == gbounds[ubidx(i)]
                global_lb == gbounds[lbidx(i)]
                b == s.bounds[i + 1]
            IN IF global_lb < s.kmin
               THEN {Return(s, b.ub_it, s.min_idx + b.ub_pos)}
               ELSE {find_eq_pos(s, global_ub, b, global_lb, s.kmin - global_lb)}
       ELSE LET bu == best_ub_idx(gbounds, d, s.kmin)
                bl == best_lb_idx(gbounds, d, s.kmax)
                gub == IF bu >= 0 THEN gbounds[ubidx(bu)] ELSE 0
                new_min_idx == IF bu >= 0 THEN s.min_idx + s.bounds[bu + 1].ub_pos
                               ELSE s.min_idx
                new_max_idx == IF bl >= 0 THEN s.min_idx + s.bounds[bl + 1].lb_pos
                               ELSE s.max_idx
                new_kmin == s.kmin - gub
                new_kmax == s.kmax - gub
                new_global_size ==
                    (s.global_size - gub)
                    - (IF bl >= 0 THEN s.global_size - gbounds[lbidx(bl)] ELSE 0)
            IN IF ~(new_global_size > 0) \/ ~(new_global_size <= s.global_size)
               THEN {Die(s)}
               ELSE select(s, t, d, new_kmin, new_kmax, new_min_idx, new_max_idx,
                           new_global_size)

(***************************************************************************)
(* The collectives.  A collective completes when every worker has entered  *)
(* the same operation with a contribution of the same length.              *)
(***************************************************************************)
\* a reduction that hands every worker its own contribution back
ReducedLocally(op, w, i) == pe[w].coll.val[i]

\* element i of the result of an all_reduce / scan for worker w
Reduced(op, w, i) ==
    IF op = "sum" THEN SumTo([v \in PE |-> pe[v].coll.val[i]], NumPE - 1)
    ELSE IF op = "min" THEN SetMin({pe[v].coll.val[i] : v \in PE})
    ELSE IF op = "max" THEN SetMax({pe[v].coll.val[i] : v \in PE})
    \* MPI_Scan: inclusive prefix sum over the ranks
    ELSE SumTo([v \in PE |-> pe[v].coll.val[i]], w)

CanDeliver ==
    /\ \A w \in PE : pe[w].waiting
    /\ \A w \in PE : /\ pe[w].coll.op = pe[0].coll.op
                     /\ Len(pe[w].coll.val) = Len(pe[0].coll.val)

\* mpi::all_reduce / mpi::scan complete on all workers
Deliver ==
    /\ CanDeliver
    /\ pe' = [w \in PE |->
                [pe[w] EXCEPT !.waiting = FALSE, !.coll = NoColl,
                              !.rcv = [i \in 1 .. Len(pe[0].coll.val) |->
                                          Reduced(pe[0].coll.op, w, i)]]]
    /\ UNCHANGED <<variant, tree, req, resVars, btVars>>

(***************************************************************************)
(* SpecSel: the steps of one worker between two collectives.               *)
(***************************************************************************)
D == IF variant = "single" THEN 1 ELSE NumPivots

Running(w, pc) == pe[w].pc = pc /\ ~pe[w].waiting
\* an entry of the selection that empties the sequence it is given
StartConsuming(w) ==
    /\ Running(w, "start")
    /\ pe' = [pe EXCEPT ![w] = Post(pe[w], "after_size", "sum", <<SeqSize(tree[w])>>)]
    /\ tree' = [tree EXCEPT ![w] = <<>>]
    /\ UNCHANGED <<variant, req, resVars, btVars>>
\* operator(): the argument check and the all_reduce of the size
Start(w) ==
    /\ Running(w, "start")
    /\ pe' = [pe EXCEPT ![w] =
                IF req.kmin > req.kmax \/ req.kmax = 0
                THEN Return(pe[w], 0, 0)
                ELSE Post(pe[w], "after_size", "sum", <<SeqSize(tree[w])>>)]
    /\ UNCHANGED <<variant, tree, req, resVars, btVars>>

\* operator(): the size check and the call of select
AfterSize(w) ==
    /\ Running(w, "after_size")
    /\ LET size == pe[w].rcv[1]
       IN \E n \in IF ~(req.kmin <= size) THEN {Die(pe[w])}
                   ELSE select(pe[w], tree[w], D, req.kmin, req.kmax, 0,
                               SeqSize(tree[w]), size) :
             pe' = [pe EXCEPT ![w] = n]
    /\ UNCHANGED <<variant, tree, req, resVars, btVars>>

\* select: the termination case kmin = 1 or kmax = 1 after its all_reduce
AfterTerm(w) ==
    /\ Running(w, "after_term")
    /\ LET s == pe[w]
           pivot == s.rcv[1]
           ub == SeqRankOfUpperBound(tree[w], pivot)
       IN pe' = [pe EXCEPT ![w] =
                    IF ub < s.min_idx
                    THEN Return(s, SeqFindRank(tree[w], s.min_idx), s.min_idx)
                    ELSE Return(s, ub, ub)]
    /\ UNCHANGED <<variant, tree, req, resVars, btVars>>

\* select after the all_reduce of the pivot(s): get_bounds, then the
\* all_reduce get_bounds performs (single pivot, no viable pivot) or the
\* all_reduce of the local bounds
AfterPivot(w) ==
    /\ Running(w, "after_pivot")
    /\ LET s == pe[w]
           t == tree[w]
           min_it == SeqFindRank(t, s.min_idx)
           max_it == SeqFindRank(t, s.max_idx)
       IN IF variant = "single"
          THEN LET g == get_bounds(TRUE, t, s.rcv[1], s.min_idx, s.max_idx,
                                   min_it, max_it)
                   s1 == [s EXCEPT !.bounds = <<BoundOf(g)>>]
               IN IF g.red # "none"
                  THEN \E pv \in g.newpivot :
                          pe' = [pe EXCEPT ![w] =
                                    Post(s1, "after_sentinel", g.red, <<pv>>)]
                  ELSE pe' = [pe EXCEPT ![w] =
                                 Post(s1, "after_bound", "sum",
                                      <<g.lb_pos, g.ub_pos>>)]
          ELSE LET bs == [i \in 1 .. NumPivots |->
                             BoundOf(get_bounds(FALSE, t, s.rcv[i], s.min_idx,
                                                s.max_idx, min_it, max_it))]
                   gb == [j \in 1 .. 2 * NumPivots |->
                             IF j % 2 = 1 THEN bs[(j + 1) \div 2].ub_pos
                             ELSE bs[j \div 2].lb_pos]
               IN pe' = [pe EXCEPT ![w] =
                            Post([s EXCEPT !.bounds = bs], "after_bound", "sum", gb)]
    /\ UNCHANGED <<variant, tree, req, resVars, btVars>>

\* ams_select: get_bounds returns after its all_reduce (the agreed pivot
\* stays in get_bounds' own copy), global_bound starts
AfterSentinel(w) ==
    /\ Running(w, "after_sentinel")
    /\ LET b == pe[w].bounds[1]
       IN pe' = [pe EXCEPT ![w] =
                    Post(pe[w], "after_bound", "sum", <<b.lb_pos, b.ub_pos>>)]
    /\ UNCHANGED <<variant, tree, req, resVars, btVars>>

\* select after the global bounds arrived: recurse, finish, or find_eq_pos
AfterBound(w) ==
    /\ Running(w, "after_bound")
    /\ \E n \in IF variant = "single"
                THEN select_single_bound(pe[w], tree[w], pe[w].rcv[1], pe[w].rcv[2])
                ELSE select_multi_bound(pe[w], tree[w], NumPivots, pe[w].rcv) :
          pe' = [pe EXCEPT ![w] = n]
    /\ UNCHANGED <<variant, tree, req, resVars, btVars>>

\* find_eq_pos after its scan
AfterScan(w) ==
    /\ Running(w, "after_scan")
    /\ pe' = [pe EXCEPT ![w] = find_eq_pos_scan(pe[w], pe[w].rcv[1])]
    /\ UNCHANGED <<variant, tree, req, resVars, btVars>>

\* the largest kmin / kmax a call is made with
MaxK == NumPE * MaxLen

InitSel ==
    /\ variant \in {"single", "multi"}
    /\ tree \in [PE -> SortedUpTo(MaxLen)]
    /\ req \in {r \in [kmin : 0 .. MaxK, kmax : 0 .. MaxK] : TRUE}
    /\ pe = [w \in PE |-> IdleWorker]
    /\ threshold_ = [w \in PE |-> 0]
    /\ batch_id_ = [w \in PE |-> 0]
    /\ smallest = <<>>
    /\ batch = NoBatch
    /\ NoTree

NextSel ==
    \/ \E w \in PE : Start(w)
    \/ \E w \in PE : AfterSize(w)
    \/ \E w \in PE : AfterTerm(w)
    \/ \E w \in PE : AfterPivot(w)
    \/ \E w \in PE : AfterSentinel(w)
    \/ \E w \in PE : AfterBound(w)
    \/ \E w \in PE : AfterScan(w)
    \/ Deliver

SpecSel == InitSel /\ [][NextSel]_vars

(***************************************************************************)
(* Properties of the selection.                                            *)
(***************************************************************************)
AllDone == \A w \in PE : pe[w].pc = "done"
SomeDead == \E w \in PE : pe[w].pc = "dead"
GlobalSize == SumTo([w \in PE |-> SeqSize(tree[w])], NumPE - 1)
RankSum == SumTo([w \in PE |-> pe[w].res_rank], NumPE - 1)
\* the call asks for exactly k = req.kmin items, 1 <= k <= global_size
ExactRequest == req.kmin = req.kmax /\ 1 <= req.kmin /\ req.kmin <= GlobalSize
\* the call asks for a range 1 <= k_min <= k_max <= global_size
RangeRequest == 1 <= req.kmin /\ req.kmin <= req.kmax /\ req.kmax <= GlobalSize

\* C1: with k_min = k_max = k and 1 <= k <= global_size, once every worker
\* has returned, the returned local ranks sum to exactly k.
C1_ExactCount == (AllDone /\ ExactRequest) => RankSum = req.kmin

\* C2: once every worker has returned, every key in a returned prefix (the
\* first res_rank elements of a worker's tree) is <= every key that no
\* worker returned.
C2_PrefixBelowRest ==
    AllDone =>
       \A w1 \in PE, w2 \in PE :
          \A i \in 1 .. pe[w1].res_rank :
             \A j \in (pe[w2].res_rank + 1) .. SeqSize(tree[w2]) :
                /\ i <= SeqSize(tree[w1])
                /\ tree[w1][i] <= tree[w2][j]

\* C2 happens: an exact request is answered with k >= 2 items, every worker
\* returns a proper non-empty prefix, and a key equal to a returned one is
\* left behind
C2_Witness ==
    /\ AllDone /\ ExactRequest /\ req.kmin >= 2 /\ RankSum = req.kmin
    /\ \A w \in PE : 0 < pe[w].res_rank /\ pe[w].res_rank < SeqSize(tree[w])
    /\ \E w1 \in PE, w2 \in PE :
          tree[w1][pe[w1].res_rank] = tree[w2][pe[w2].res_rank + 1]

\* C3: for a range 1 <= k_min <= k_max <= global_size no worker aborts, and
\* once every worker has returned the local ranks sum to a value in
\* [k_min, k_max].
C3_RangeCount ==
    RangeRequest =>
       /\ ~SomeDead
       /\ AllDone => (req.kmin <= RankSum /\ RankSum <= req.kmax)

\* C4: on every worker that has returned, the returned iterator is
\* find_rank(local_rank) of that worker's tree.
C4_IteratorAtRank ==
    \A w \in PE :
       pe[w].pc = "done" => pe[w].res_it = SeqFindRank(tree[w], pe[w].res_rank)

\* C7: all workers issue the same sequence of collectives: whenever two
\* workers are blocked in a collective it is the same operation with the
\* same number of elements, and no worker is blocked in a collective while
\* another worker has left the call (returned or aborted) without entering
\* it.
C7_SameCollectives ==
    \A w1 \in PE, w2 \in PE :
       pe[w1].waiting =>
          /\ pe[w2].pc \notin {"done", "dead"}
          /\ pe[w2].waiting =>
                /\ pe[w2].coll.op = pe[w1].coll.op
                /\ Len(pe[w2].coll.val) = Len(pe[w1].coll.val)
                /\ pe[w2].pc = pe[w1].pc

\* C7 happens: after at least one refinement round every worker is blocked
\* in the tie-resolution scan
C7_Witness ==
    /\ \A w \in PE : pe[w].waiting /\ pe[w].coll.op = "scan"
    /\ \E w \in PE : pe[w].min_idx > 0

(***************************************************************************)
(* SpecRes: reservoir::insert, batch after batch.  A worker is "idle"      *)
(* between two calls of insert; ProcessBatch is Step 1 of insert, the      *)
(* selection actions above are Step 2 (select_(reservoir_, size_)),        *)
(* SplitStep is Step 3 and the start of Step 4, AfterThreshold its end.    *)
(***************************************************************************)
size_ == req.kmin

\* insert2 on the key sequence of the tree
SeqInsert(t, key) ==
    LET n == SeqRankOfUpperBound(t, key)
    IN SubSeq(t, 1, n) \o <<key>> \o SubSeq(t, n + 1, Len(t))

\* --iter: at begin() the iterator stays where it is
IterPrev(it) == IF it > 0 THEN it - 1 ELSE 0

\* split(left, key, right): left receives the items with keys <= key
SeqSplit(t, key) == SubSeq(t, 1, SeqRankOfUpperBound(t, key))

\* splitAt(left, k, iter, right): the tree left becomes.  The split key is
\* read through the iterator passed in, stepped back by one; surplus items
\* are moved from the end of left to right until left.size() <= k.
SeqSplitAt(t, k, iter) ==
    IF k <= 0 THEN {<<>>}
    ELSE {LET left == SeqSplit(t, key)
          IN IF Len(left) > k THEN SubSeq(left, 1, k) ELSE left :
             key \in get_key(t, IterPrev(iter))}

\* a tree and the smallest-keys record after reservoir_.insert2(key, ..)
InsertKey(st, key) ==
    LET h == SeqInsert(st.hist, key)
    IN [tree |-> SeqInsert(st.tree, key),
        hist |-> IF Len(h) > size_ THEN SubSeq(h, 1, size_) ELSE h,
        dead |-> FALSE]

RECURSIVE FirstFill(_, _, _)
\* Step 1, threshold_ = 0, first loop: items get a fresh key each and are
\* inserted while reservoir_.size() < size_thresh; yields the states
\* reached with the number of items left
FirstFill(st, items, size_thresh) ==
    IF items = 0 \/ ~(SeqSize(st.tree) < size_thresh)
    THEN {[st |-> st, items |-> items]}
    ELSE UNION {FirstFill(InsertKey(st, key), items - 1, size_thresh) :
                   key \in DrawKeys}
\* a second loop of Step 1 that keeps admitting every item with a fresh key
\* and never cuts the tree back
NoThresholding(st, items, size_thresh, local_threshold) ==
    {f.st : f \in FirstFill(st, items, size_thresh + MaxBatch + MaxLen)}
RECURSIVE LocalThresholding(_, _, _, _)
\* Step 1, threshold_ = 0, second loop (it != end, items > 0 left counting
\* the one at it): cut the tree back to size_ items when it has reached
\* size_thresh, then insert_skip<false>: it moves on by at least one item
\* and either reaches end or inserts a key <= local_threshold there
LocalThresholding(st, items, size_thresh, local_threshold) ==
    LET cut == SeqSize(st.tree) >= size_thresh
        thresh_it == SeqFindRank(st.tree, size_)
        lts == IF cut THEN get_key(st.tree, thresh_it) ELSE {local_threshold}
        keeps == IF cut THEN SeqSplitAt(st.tree, size_, thresh_it) ELSE {st.tree}
    IN UNION {
         IF ~(lt > 0) THEN {[st EXCEPT !.dead = TRUE]}
         ELSE LET st1 == [st EXCEPT !.tree = keep]
              IN {st1} \cup
                 UNION {LocalThresholding(InsertKey(st1, key), items - j,
                                          size_thresh, lt) :
                           j \in 1 .. (items - 1),
                           key \in {x \in DrawKeys : x <= lt}}
         : lt \in lts, keep \in keeps}
\* a Step 1 for threshold_ > 0 that admits every item with a fresh key,
\* whatever the threshold
SkipNothing(st, items, threshold) ==
    {f.st : f \in FirstFill(st, items, SeqSize(st.tree) + MaxBatch + 1)}
RECURSIVE SkipInserts(_, _, _)
\* Step 1, threshold_ > 0: insert_skip<true> until it = end; each call
\* moves it on by at least one item and either reaches end or inserts a
\* key <= threshold there
SkipInserts(st, items, threshold) ==
    IF items = 0 THEN {st}
    ELSE {st} \cup
         UNION {SkipInserts(InsertKey(st, key), items - j, threshold) :
                   j \in 1 .. (items - 1),
                   key \in {x \in DrawKeys : x <= threshold}}

\* Step 1 of insert for a batch of items items: the states it can end in
Step1(t, threshold, items) ==
    LET st0 == [tree |-> t, hist |-> smallest, dead |-> FALSE]
    IN IF threshold = 0
       THEN LET thresh1 == Max2((3 * size_) \div 2, size_ + ThreshSlack1)
                thresh2 == Max2((11 * size_) \div 10, size_ + ThreshSlack2)
            IN UNION {IF f.items = 0 THEN {f.st}
                      ELSE LocalThresholding(f.st, f.items, thresh2, 0) :
                         f \in FirstFill(st0, items, thresh1)}
       ELSE SkipInserts(st0, items, threshold)

\* insert(begin, end), Step 1: process the batch locally, then call select_
ProcessBatch(w) ==
    /\ Running(w, "idle")
    /\ batch_id_[w] < NumBatches
    /\ \E items \in 0 .. MaxBatch :
          \E st \in Step1(tree[w], threshold_[w], items) :
             /\ tree' = [tree EXCEPT ![w] = st.tree]
             /\ smallest' = st.hist
             /\ pe' = [pe EXCEPT ![w] =
                         IF st.dead THEN Die(pe[w])
                         ELSE [IdleWorker EXCEPT !.pc = "start"]]
    /\ UNCHANGED <<variant, req, threshold_, batch_id_, batch, btVars>>

\* insert, Step 3 and Step 4: split at the pair select_ returned, keep the
\* left part, all_reduce the largest key kept
SplitStep(w) ==
    /\ Running(w, "done")
    /\ \E keep \in SeqSplitAt(tree[w], pe[w].res_rank, pe[w].res_it) :
          /\ tree' = [tree EXCEPT ![w] = keep]
          /\ pe' = [pe EXCEPT ![w] =
                      Post(IdleWorker, "after_threshold", "max",
                           <<IF SeqSize(keep) = 0 THEN 0 ELSE keep[Len(keep)]>>)]
    /\ UNCHANGED <<variant, req, resVars, btVars>>
\* an end of Step 4 that completes the batch with the threshold left as it was
AfterThresholdKept(w) ==
    /\ Running(w, "after_threshold")
    /\ batch_id_' = [batch_id_ EXCEPT ![w] = @ + 1]
    /\ pe' = [pe EXCEPT ![w] = [IdleWorker EXCEPT !.pc = "idle"]]
    /\ UNCHANGED <<variant, tree, req, threshold_, smallest, batch, btVars>>
\* insert, end of Step 4: the new threshold; the batch is complete
AfterThreshold(w) ==
    /\ Running(w, "after_threshold")
    /\ threshold_' = [threshold_ EXCEPT ![w] = pe[w].rcv[1]]
    /\ batch_id_' = [batch_id_ EXCEPT ![w] = @ + 1]
    /\ pe' = [pe EXCEPT ![w] = [IdleWorker EXCEPT !.pc = "idle"]]
    /\ UNCHANGED <<variant, tree, req, smallest, batch, btVars>>

InitRes ==
    /\ variant \in {"single", "multi"}
    /\ tree = [w \in PE |-> <<>>]
    /\ req \in {[kmin |-> k, kmax |-> k] : k \in 1 .. MaxSample}
    /\ pe = [w \in PE |-> [IdleWorker EXCEPT !.pc = "idle"]]
    /\ threshold_ = [w \in PE |-> 0]
    /\ batch_id_ = [w \in PE |-> 0]
    /\ smallest = <<>>
    /\ batch = NoBatch
    /\ NoTree

NextRes ==
    \/ \E w \in PE : ProcessBatch(w)
    \/ NextSel
    \/ \E w \in PE : SplitStep(w)
    \/ \E w \in PE : AfterThreshold(w)

SpecRes == InitRes /\ [][NextRes]_vars

(***************************************************************************)
(* Properties of the reservoir.                                            *)
(***************************************************************************)
\* every worker has completed the same number (>= 1) of batches and is
\* between two calls of insert
BatchComplete ==
    /\ \A w \in PE : pe[w].pc = "idle" /\ batch_id_[w] = batch_id_[0]
    /\ batch_id_[0] >= 1

RECURSIVE MergeTo(_)
\* the keys of the trees of workers 0 .. n, sorted
MergeTo(n) ==
    IF n < 0 THEN <<>>
    ELSE LET rest == MergeTo(n - 1)
             RECURSIVE Ins(_, _)
             Ins(acc, i) == IF i > Len(tree[n]) THEN acc
                            ELSE Ins(SeqInsert(acc, tree[n][i]), i + 1)
         IN Ins(rest, 1)

\* C5: after every completed batch each worker's tree holds at most size_
\* items, and once size_ items have been inserted in total the sizes of
\* the workers' trees sum to exactly size_.
C5_SampleSize ==
    BatchComplete =>
       /\ \A w \in PE : SeqSize(tree[w]) <= size_
       /\ Len(smallest) = size_ => GlobalSize = size_

\* C6: after every completed batch for which at least size_ keys have been
\* inserted, the union of the workers' trees is the multiset of the size_
\* smallest keys inserted into any tree so far.
C6_SmallestKept ==
    (BatchComplete /\ Len(smallest) = size_) => MergeTo(NumPE - 1) = smallest

(***************************************************************************)
(* The B+ tree.  A tree value T is the record of the BTree members: nodes  *)
(* maps the address of every allocated node to the node, 0 is nullptr.     *)
(* A node keeps slotkey (its slotuse keys; slotdata for a leaf, items are  *)
(* their keys), childid (slotuse + 1 children, inner nodes), subtree_size  *)
(* (inner nodes), prev_leaf / next_leaf (leaves).  Slots count from 0 as   *)
(* in the code.                                                            *)
(***************************************************************************)
leaf_slotmin == leaf_slotmax \div 2
inner_slotmin == inner_slotmax \div 2

slotuse(N) == Len(N.slotkey)
is_leafnode(N) == N.level = 0
slotmax(N) == IF is_leafnode(N) THEN leaf_slotmax ELSE inner_slotmax
slotmin(N) == IF is_leafnode(N) THEN leaf_slotmin ELSE inner_slotmin
is_full(N) == slotuse(N) = slotmax(N)
is_few(N) == slotuse(N) <= slotmin(N)
is_underflow(N) == slotuse(N) < slotmin(N)
\* n->key(slot) and n->childid[slot]
NodeKey(N, slot) == N.slotkey[slot + 1]
ChildId(N, slot) == N.childid[slot + 1]

\* a sequence without / with an extra element at 0-based position slot
SeqRemoveAt(q, slot) == SubSeq(q, 1, slot) \o SubSeq(q, slot + 2, Len(q))
SeqInsertAt(q, slot, x) == SubSeq(q, 1, slot) \o <<x>> \o SubSeq(q, slot + 1, Len(q))

\* allocate_leaf / allocate_inner: a fresh address, then the node stored
NewNode(T) == CHOOSE i \in 1 .. (Cardinality(DOMAIN T.nodes) + 1) :
                 /\ i \notin DOMAIN T.nodes
                 /\ \A j \in 1 .. (i - 1) : j \in DOMAIN T.nodes
SetNode(T, n, N) ==
    [T EXCEPT !.nodes = [i \in (DOMAIN T.nodes) \cup {n} |->
                            IF i = n THEN N ELSE T.nodes[i]]]
\* a free_node that frees nothing
FreeNodeNot(T, n) == T
\* free_node; freeing what is not allocated is recorded in fix
FreeNode(T, n) ==
    IF n \in DOMAIN T.nodes
    THEN [T EXCEPT !.nodes = [i \in (DOMAIN T.nodes) \ {n} |-> T.nodes[i]]]
    ELSE Called(T, "double_free")

MkLeaf(keys, prev, next) ==
    [level |-> 0, slotkey |-> keys, childid |-> <<>>, subtree_size |-> 0,
     prev_leaf |-> prev, next_leaf |-> next]
MkInner(level, keys, children, sz) ==
    [level |-> level, slotkey |-> keys, childid |-> children,
     subtree_size |-> sz, prev_leaf |-> 0, next_leaf |-> 0]

\* first slot whose key is >= key (slotuse if none)
find_lower(N, key) ==
    Cardinality({i \in 1 .. slotuse(N) : N.slotkey[i] < key})
\* a find_upper that stops at the first key equal to key
FindUpperAsLower(N, key) ==
    Cardinality({i \in 1 .. slotuse(N) : N.slotkey[i] < key})
\* first slot whose key is > key (slotuse if none)
find_upper(N, key) ==
    Cardinality({i \in 1 .. slotuse(N) : N.slotkey[i] <= key})

\* the number of items a child contributes to its parent's subtree_size
NodeSize(T, n) ==
    IF is_leafnode(T.nodes[n]) THEN slotuse(T.nodes[n])
    ELSE T.nodes[n].subtree_size

RECURSIVE sum_subtree_size(_, _, _, _)
\* sum of the sizes of children begin .. end-1 of inner
sum_subtree_size(T, inner, begin, end) ==
    IF begin >= end THEN 0
    ELSE NodeSize(T, ChildId(T.nodes[inner], begin))
         + sum_subtree_size(T, inner, begin + 1, end)

\* size()
bt_size(T) ==
    IF T.root_ = 0 THEN 0 ELSE NodeSize(T, T.root_)

\* new_root
new_root(T, newchild, splitkey) ==
    LET newroot == NewNode(T)
    IN [SetNode(Called(T, "new_root"), newroot,
                MkInner(T.nodes[T.root_].level + 1, <<splitkey>>,
                        <<T.root_, newchild>>,
                        NodeSize(T, newchild) + NodeSize(T, T.root_)))
        EXCEPT !.root_ = newroot]

\* split_leaf_node: the tree, the new leaf and the key to insert above
split_leaf_node(T, leaf) ==
    LET L == T.nodes[leaf]
        mid == slotuse(L) \div 2
        newleaf == NewNode(T)
        T1 == SetNode(Called(T, "split_leaf_node"), newleaf,
                      MkLeaf(SubSeq(L.slotkey, mid + 1, slotuse(L)), leaf,
                             L.next_leaf))
        T2 == IF L.next_leaf = 0
              THEN [T1 EXCEPT !.tail_leaf_ = newleaf]
              ELSE [T1 EXCEPT !.nodes[L.next_leaf].prev_leaf = newleaf]
        T3 == [T2 EXCEPT !.nodes[leaf].slotkey = SubSeq(L.slotkey, 1, mid),
                         !.nodes[leaf].next_leaf = newleaf]
    IN [T |-> T3, newleaf |-> newleaf, newkey |-> L.slotkey[mid]]

\* a split_inner_node that leaves the old subtree_size on inner and gives
\* the new node none
SplitInnerKeepsSize(T, inner, addslot) ==
    LET N == T.nodes[inner]
        mid0 == slotuse(N) \div 2
        mid == IF addslot <= mid0 /\ mid0 > slotuse(N) - (mid0 + 1)
               THEN mid0 - 1 ELSE mid0
        newinner == NewNode(T)
        T1 == SetNode(Called(T, "split_inner_node"), newinner,
                      MkInner(N.level, SubSeq(N.slotkey, mid + 2, slotuse(N)),
                              SubSeq(N.childid, mid + 2, slotuse(N) + 1), 0))
        T2 == [T1 EXCEPT !.nodes[inner].slotkey = SubSeq(N.slotkey, 1, mid),
                         !.nodes[inner].childid = SubSeq(N.childid, 1, mid + 1)]
    IN [T |-> T2, newinner |-> newinner, newkey |-> N.slotkey[mid + 1]]

\* split_inner_node: the tree, the new inner node and the key to insert above
split_inner_node(T, inner, addslot) ==
    LET N == T.nodes[inner]
        mid0 == slotuse(N) \div 2
        mid == IF addslot <= mid0 /\ mid0 > slotuse(N) - (mid0 + 1)
               THEN mid0 - 1 ELSE mid0
        newinner == NewNode(T)
        T1 == SetNode(Called(T, "split_inner_node"), newinner,
                      MkInner(N.level, SubSeq(N.slotkey, mid + 2, slotuse(N)),
                              SubSeq(N.childid, mid + 2, slotuse(N) + 1), 0))
        T2 == [T1 EXCEPT !.nodes[inner].slotkey = SubSeq(N.slotkey, 1, mid),
                         !.nodes[inner].childid = SubSeq(N.childid, 1, mid + 1)]
        T3 == [T2 EXCEPT !.nodes[newinner].subtree_size =
                             sum_subtree_size(T2, newinner, 0,
                                              slotuse(T2.nodes[newinner]) + 1),
                         !.nodes[inner].subtree_size =
                             sum_subtree_size(T2, inner, 0,
                                              slotuse(T2.nodes[inner]) + 1)]
    IN [T |-> T3, newinner |-> newinner, newkey |-> N.slotkey[mid + 1]]

RECURSIVE insert_descend(_, _, _)
\* insert_descend (duplicates allowed, so the item is always inserted): the
\* tree, the node split off n (0 if none) and the key to insert above
insert_descend(T, n, key) ==
    IF ~is_leafnode(T.nodes[n])
    THEN
      LET slot == find_lower(T.nodes[n], key)
          r == insert_descend(T, ChildId(T.nodes[n], slot), key)
          T1 == r.T
          newchild == r.splitnode
          newkey == r.splitkey
      IN IF newchild = 0
         THEN [T |-> [T1 EXCEPT !.nodes[n].subtree_size = @ + 1],
               splitnode |-> 0, splitkey |-> 0]
         ELSE IF is_full(T1.nodes[n])
         THEN
           LET new_subtree_size == NodeSize(T1, newchild)
               sp == split_inner_node(T1, n, slot)
               T2 == sp.T
               split == sp.newinner
               I == T2.nodes[n]
               S == T2.nodes[split]
           IN IF slot = slotuse(I) + 1 /\ slotuse(I) < slotuse(S)
              THEN \* the insert slot is the split place: the inserted key
                   \* becomes the split key
                LET moved == ChildId(S, 0)
                    moved_subtreesize == NodeSize(T2, moved)
                IN [T |-> [T2 EXCEPT
                             !.nodes[n].slotkey = Append(I.slotkey, sp.newkey),
                             !.nodes[n].childid = Append(I.childid, moved),
                             !.nodes[n].subtree_size = @ + moved_subtreesize,
                             !.nodes[split].subtree_size =
                                 @ + new_subtree_size - moved_subtreesize,
                             !.nodes[split].childid[1] = newchild],
                    splitnode |-> split, splitkey |-> newkey]
              ELSE
                LET inSplit == slot >= slotuse(I) + 1
                    tgt == IF inSplit THEN split ELSE n
                    tslot == IF inSplit THEN slot - (slotuse(I) + 1) ELSE slot
                    G == T2.nodes[tgt]
                IN [T |-> [T2 EXCEPT
                             !.nodes[tgt].slotkey = SeqInsertAt(G.slotkey, tslot, newkey),
                             !.nodes[tgt].childid = SeqInsertAt(G.childid, tslot + 1, newchild),
                             !.nodes[tgt].subtree_size = @ + (new_subtree_size - 1) + 1],
                    splitnode |-> split, splitkey |-> sp.newkey]
         ELSE
           LET I == T1.nodes[n]
           IN [T |-> [T1 EXCEPT
                        !.nodes[n].slotkey = SeqInsertAt(I.slotkey, slot, newkey),
                        !.nodes[n].childid = SeqInsertAt(I.childid, slot + 1, newchild),
                        !.nodes[n].subtree_size = @ + 1],
               splitnode |-> 0, splitkey |-> 0]
    ELSE
      LET slot == find_lower(T.nodes[n], key)
          full == is_full(T.nodes[n])
          sp == split_leaf_node(T, n)
          T1 == IF full THEN sp.T ELSE T
          splitnode == IF full THEN sp.newleaf ELSE 0
          inSplit == full /\ slot >= slotuse(T1.nodes[n])
          leaf == IF inSplit THEN splitnode ELSE n
          lslot == IF inSplit THEN slot - slotuse(T1.nodes[n]) ELSE slot
          T2 == [T1 EXCEPT !.nodes[leaf].slotkey = SeqInsertAt(@, lslot, key)]
      IN [T |-> T2, splitnode |-> splitnode,
          \* the insert at the last slot of the old node replaces the split key
          splitkey |-> IF leaf # splitnode /\ lslot = slotuse(T2.nodes[leaf]) - 1
                       THEN key
                       ELSE IF full THEN sp.newkey ELSE 0]

\* insert_start: insert(key)
insert_start(T, key) ==
    LET T0 == IF T.root_ = 0
              THEN LET l == NewNode(T)
                   IN [SetNode(T, l, MkLeaf(<<>>, 0, 0))
                       EXCEPT !.root_ = l, !.head_leaf_ = l, !.tail_leaf_ = l]
              ELSE T
    IN Bind(insert_descend(T0, T0.root_, key),
            LAMBDA r : IF r.splitnode # 0
                       THEN new_root(r.T, r.splitnode, r.splitkey)
                       ELSE r.T)

(***************************************************************************)
(* verify(): TRUE iff no tlx_die_unless of verify, verify_node and         *)
(* verify_leaflinks fails.  Following a pointer to a node that is not      *)
(* allocated counts as a failure.                                          *)
(***************************************************************************)
IsSorted(q) == \A i \in 1 .. (Len(q) - 1) : q[i] <= q[i + 1]
Allocated(T, n) == n \in DOMAIN T.nodes

RECURSIVE verify_node(_, _)
\* verify_node: ok, the size of the subtree, its smallest and largest key
verify_node(T, n) ==
    IF ~Allocated(T, n)
    THEN [ok |-> FALSE, size |-> 0, minkey |-> 0, maxkey |-> 0, level |-> -1]
    ELSE
      LET N == T.nodes[n]
      IN IF is_leafnode(N)
         THEN [ok |-> /\ (n = T.root_ \/ ~is_underflow(N))
                      /\ slotuse(N) > 0
                      /\ IsSorted(N.slotkey),
               size |-> slotuse(N),
               minkey |-> IF slotuse(N) > 0 THEN NodeKey(N, 0) ELSE 0,
               maxkey |-> IF slotuse(N) > 0 THEN NodeKey(N, slotuse(N) - 1) ELSE 0,
               level |-> 0]
         ELSE
           LET sub == [slot \in 0 .. slotuse(N) |-> verify_node(T, ChildId(N, slot))]
               \* last leaf below child slot / first leaf below child slot + 1
               lastLeaf(c) == ChildId(T.nodes[c], slotuse(T.nodes[c]))
               firstLeaf(c) == ChildId(T.nodes[c], 0)
               linked(a, b) ==
                   /\ Allocated(T, a) /\ Allocated(T, b)
                   /\ T.nodes[a].next_leaf = b
                   /\ a = T.nodes[b].prev_leaf
           IN [ok |-> /\ (n = T.root_ \/ ~is_underflow(N))
                      /\ slotuse(N) > 0
                      /\ Len(N.childid) = slotuse(N) + 1
                      /\ IsSorted(N.slotkey)
                      /\ \A slot \in 0 .. slotuse(N) :
                            /\ sub[slot].ok
                            /\ sub[slot].level + 1 = N.level
                            /\ slot # 0 => sub[slot].minkey >= NodeKey(N, slot - 1)
                            /\ slot # slotuse(N) => NodeKey(N, slot) = sub[slot].maxkey
                            /\ (N.level = 1 /\ slot < slotuse(N)) =>
                                  linked(ChildId(N, slot), ChildId(N, slot + 1))
                            /\ (N.level = 2 /\ slot < slotuse(N)) =>
                                  linked(lastLeaf(ChildId(N, slot)),
                                         firstLeaf(ChildId(N, slot + 1)))
                      /\ N.subtree_size = SumTo([slot \in 0 .. slotuse(N) |-> sub[slot].size],
                                                slotuse(N)),
               size |-> SumTo([slot \in 0 .. slotuse(N) |-> sub[slot].size], slotuse(N)),
               minkey |-> sub[0].minkey,
               maxkey |-> sub[slotuse(N)].maxkey,
               level |-> N.level]

RECURSIVE verify_leaflinks(_, _, _, _)
\* verify_leaflinks from leaf n on, testcount items counted so far; fuel
\* bounds the walk (a list longer than the heap is cyclic)
verify_leaflinks(T, n, testcount, fuel) ==
    IF n = 0 THEN testcount = bt_size(T)
    ELSE /\ fuel > 0
         /\ Allocated(T, n)
         /\ LET N == T.nodes[n]
            IN /\ N.level = 0
               /\ slotuse(N) > 0
               /\ IsSorted(N.slotkey)
               /\ IF N.next_leaf # 0
                  THEN /\ Allocated(T, N.next_leaf)
                       /\ slotuse(T.nodes[N.next_leaf]) > 0
                       /\ NodeKey(N, slotuse(N) - 1) <= NodeKey(T.nodes[N.next_leaf], 0)
                       /\ n = T.nodes[N.next_leaf].prev_leaf
                  ELSE T.tail_leaf_ = n
               /\ verify_leaflinks(T, N.next_leaf, testcount + slotuse(N), fuel - 1)

\* verify()
verify(T) ==
    IF T.root_ # 0
    THEN /\ verify_node(T, T.root_).ok
         /\ verify_node(T, T.root_).size = bt_size(T)
         /\ T.head_leaf_ # 0
         /\ Allocated(T, T.head_leaf_)
         /\ T.nodes[T.head_leaf_].prev_leaf = 0
         /\ verify_leaflinks(T, T.head_leaf_, 0, Cardinality(DOMAIN T.nodes))
    ELSE /\ T.head_leaf_ = T.tail_leaf_
         /\ bt_size(T) = 0

(***************************************************************************)
(* Erase.  A result carries the tree with the result_t flags and lastkey.  *)
(***************************************************************************)
result_t(T, nf, ul, lk, fm) ==
    [T |-> T, not_found |-> nf, update_lastkey |-> ul, lastkey |-> lk,
     fixmerge |-> fm]
btree_ok(T) == result_t(T, FALSE, FALSE, 0, FALSE)
btree_not_found(T) == result_t(T, TRUE, FALSE, 0, FALSE)
\* myres |= other, on the tree other left behind
MergeRes(myres, other) ==
    [T |-> other.T,
     not_found |-> myres.not_found \/ other.not_found,
     update_lastkey |-> myres.update_lastkey \/ other.update_lastkey,
     lastkey |-> IF other.update_lastkey THEN other.lastkey ELSE myres.lastkey,
     fixmerge |-> myres.fixmerge \/ other.fixmerge]
\* a call that returns no result, on the tree it left behind
WithTree(myres, T) == [myres EXCEPT !.T = T]

\* merge_leaves
merge_leaves(T, left, right) ==
    LET L == T.nodes[left]
        R == T.nodes[right]
        T1 == [Called(T, "merge_leaves") EXCEPT
                 !.nodes[left].slotkey = L.slotkey \o R.slotkey,
                 !.nodes[left].next_leaf = R.next_leaf]
        T2 == IF R.next_leaf # 0
              THEN [T1 EXCEPT !.nodes[R.next_leaf].prev_leaf = left]
              ELSE [T1 EXCEPT !.tail_leaf_ = left]
    IN result_t([T2 EXCEPT !.nodes[right].slotkey = <<>>],
                FALSE, FALSE, 0, TRUE)

\* merge_inner
merge_inner(T, left, right, parent, parentslot) ==
    LET L == T.nodes[left]
        R == T.nodes[right]
    IN result_t([Called(T, "merge_inner") EXCEPT
                   !.nodes[left].slotkey =
                       L.slotkey \o <<NodeKey(T.nodes[parent], parentslot)>> \o R.slotkey,
                   !.nodes[left].childid = L.childid \o R.childid,
                   !.nodes[left].subtree_size = L.subtree_size + R.subtree_size,
                   !.nodes[right].slotkey = <<>>,
                   !.nodes[right].childid = <<>>,
                   !.nodes[right].subtree_size = 0],
                FALSE, FALSE, 0, TRUE)

\* shift_left_leaf
shift_left_leaf(T, left, right, parent, parentslot) ==
    LET L == T.nodes[left]
        R == T.nodes[right]
        shiftnum == (slotuse(R) - slotuse(L)) \div 2
        T1 == [Called(T, "shift_left_leaf") EXCEPT
                 !.nodes[left].slotkey = L.slotkey \o SubSeq(R.slotkey, 1, shiftnum),
                 !.nodes[right].slotkey = SubSeq(R.slotkey, shiftnum + 1, slotuse(R))]
        lastkey == NodeKey(T1.nodes[left], slotuse(T1.nodes[left]) - 1)
    IN IF parentslot < slotuse(T.nodes[parent])
       THEN btree_ok([T1 EXCEPT !.nodes[parent].slotkey[parentslot + 1] = lastkey])
       ELSE result_t(T1, FALSE, TRUE, lastkey, FALSE)

\* a shift_subtree_size that adds the moved slice to the receiver and
\* leaves it on the donor
ShiftSubtreeSizeTargetOnly(T, inner, target, shiftnum, beginIndex) ==
    LET shifted_subtree_size ==
            sum_subtree_size(T, inner, beginIndex, beginIndex + shiftnum)
    IN [T EXCEPT !.nodes[target].subtree_size = @ + shifted_subtree_size]

\* shift_subtree_size
shift_subtree_size(T, inner, target, shiftnum, beginIndex) ==
    LET shifted_subtree_size ==
            sum_subtree_size(T, inner, beginIndex, beginIndex + shiftnum)
    IN [T EXCEPT !.nodes[target].subtree_size = @ + shifted_subtree_size,
                 !.nodes[inner].subtree_size = @ - shifted_subtree_size]

\* shift_left_inner
shift_left_inner(T, left, right, parent, parentslot) ==
    LET L == T.nodes[left]
        R == T.nodes[right]
        shiftnum == (slotuse(R) - slotuse(L)) \div 2
        T1 == shift_subtree_size(Called(T, "shift_left_inner"), right, left, shiftnum, 0)
    IN [T1 EXCEPT
          !.nodes[left].slotkey =
              L.slotkey \o <<NodeKey(T.nodes[parent], parentslot)>>
                        \o SubSeq(R.slotkey, 1, shiftnum - 1),
          !.nodes[left].childid = L.childid \o SubSeq(R.childid, 1, shiftnum),
          !.nodes[parent].slotkey[parentslot + 1] = NodeKey(R, shiftnum - 1),
          !.nodes[right].slotkey = SubSeq(R.slotkey, shiftnum + 1, slotuse(R)),
          !.nodes[right].childid = SubSeq(R.childid, shiftnum + 1, slotuse(R) + 1)]

\* shift_right_leaf
shift_right_leaf(T, left, right, parent, parentslot) ==
    LET L == T.nodes[left]
        R == T.nodes[right]
        shiftnum == (slotuse(L) - slotuse(R)) \div 2
        T1 == [Called(T, "shift_right_leaf") EXCEPT
                 !.nodes[right].slotkey =
                     SubSeq(L.slotkey, slotuse(L) - shiftnum + 1, slotuse(L)) \o R.slotkey,
                 !.nodes[left].slotkey = SubSeq(L.slotkey, 1, slotuse(L) - shiftnum)]
    IN [T1 EXCEPT !.nodes[parent].slotkey[parentslot + 1] =
                      NodeKey(T1.nodes[left], slotuse(T1.nodes[left]) - 1)]

\* shift_right_inner
shift_right_inner(T, left, right, parent, parentslot) ==
    LET L == T.nodes[left]
        R == T.nodes[right]
        shiftnum == (slotuse(L) - slotuse(R)) \div 2
        T1 == shift_subtree_size(Called(T, "shift_right_inner"), left, right, shiftnum,
                                 slotuse(L) - shiftnum + 1)
    IN [T1 EXCEPT
          !.nodes[right].slotkey =
              SubSeq(L.slotkey, slotuse(L) - shiftnum + 2, slotuse(L))
                  \o <<NodeKey(T.nodes[parent], parentslot)>> \o R.slotkey,
          !.nodes[right].childid =
              SubSeq(L.childid, slotuse(L) - shiftnum + 2, slotuse(L) + 1) \o R.childid,
          !.nodes[parent].slotkey[parentslot + 1] = NodeKey(L, slotuse(L) - shiftnum),
          !.nodes[left].slotkey = SubSeq(L.slotkey, 1, slotuse(L) - shiftnum),
          !.nodes[left].childid = SubSeq(L.childid, 1, slotuse(L) - shiftnum + 1)]

\* is_few() of a sibling pointer that may be null
NullOrFew(T, n) == n = 0 \/ is_few(T.nodes[n])
SomeAndFew(T, n) == n # 0 /\ is_few(T.nodes[n])
SomeNotFew(T, n) == n # 0 /\ ~is_few(T.nodes[n])

\* the underflow cases of a leaf (the same code in erase_one_descend and
\* erase_iter_descend), entered with the result myres so far
leaf_underflow(myres, leaf, left_leaf, right_leaf, left_parent, right_parent, parent, parentslot) ==
    LET T == myres.T
    IN IF left_leaf = 0 /\ right_leaf = 0
       THEN btree_ok([FreeNode(T, T.root_) EXCEPT
                        !.root_ = 0, !.head_leaf_ = 0, !.tail_leaf_ = 0])
       ELSE IF NullOrFew(T, left_leaf) /\ NullOrFew(T, right_leaf)
       THEN IF left_parent = parent
            THEN MergeRes(myres, merge_leaves(T, left_leaf, leaf))
            ELSE MergeRes(myres, merge_leaves(T, leaf, right_leaf))
       ELSE IF SomeAndFew(T, left_leaf) /\ SomeNotFew(T, right_leaf)
       THEN IF right_parent = parent
            THEN MergeRes(myres, shift_left_leaf(T, leaf, right_leaf, right_parent, parentslot))
            ELSE MergeRes(myres, merge_leaves(T, left_leaf, leaf))
       ELSE IF SomeNotFew(T, left_leaf) /\ SomeAndFew(T, right_leaf)
       THEN IF left_parent = parent
            THEN WithTree(myres, shift_right_leaf(T, left_leaf, leaf, left_parent, parentslot - 1))
            ELSE MergeRes(myres, merge_leaves(T, leaf, right_leaf))
       ELSE IF left_parent = right_parent
       THEN IF slotuse(T.nodes[left_leaf]) <= slotuse(T.nodes[right_leaf])
            THEN MergeRes(myres, shift_left_leaf(T, leaf, right_leaf, right_parent, parentslot))
            ELSE WithTree(myres, shift_right_leaf(T, left_leaf, leaf, left_parent, parentslot - 1))
       ELSE IF left_parent = parent
            THEN WithTree(myres, shift_right_leaf(T, left_leaf, leaf, left_parent, parentslot - 1))
            ELSE MergeRes(myres, shift_left_leaf(T, leaf, right_leaf, right_parent, parentslot))

\* the underflow cases of an inner node
inner_underflow(myres, inner, left_inner, right_inner, left_parent, right_parent, parent, parentslot) ==
    LET T == myres.T
    IN IF left_inner = 0 /\ right_inner = 0
       THEN btree_ok(FreeNode([Called(T, "shrink_root") EXCEPT
                                  !.root_ = ChildId(T.nodes[inner], 0)], inner))
       ELSE IF NullOrFew(T, left_inner) /\ NullOrFew(T, right_inner)
       THEN IF left_parent = parent
            THEN MergeRes(myres, merge_inner(T, left_inner, inner, left_parent, parentslot - 1))
            ELSE MergeRes(myres, merge_inner(T, inner, right_inner, right_parent, parentslot))
       ELSE IF SomeAndFew(T, left_inner) /\ SomeNotFew(T, right_inner)
       THEN IF right_parent = parent
            THEN WithTree(myres, shift_left_inner(T, inner, right_inner, right_parent, parentslot))
            ELSE MergeRes(myres, merge_inner(T, left_inner, inner, left_parent, parentslot - 1))
       ELSE IF SomeNotFew(T, left_inner) /\ SomeAndFew(T, right_inner)
       THEN IF left_parent = parent
            THEN WithTree(myres, shift_right_inner(T, left_inner, inner, left_parent, parentslot - 1))
            ELSE MergeRes(myres, merge_inner(T, inner, right_inner, right_parent, parentslot))
       ELSE IF left_parent = right_parent
       THEN IF slotuse(T.nodes[left_inner]) <= slotuse(T.nodes[right_inner])
            THEN WithTree(myres, shift_left_inner(T, inner, right_inner, right_parent, parentslot))
            ELSE WithTree(myres, shift_right_inner(T, left_inner, inner, left_parent, parentslot - 1))
       ELSE IF left_parent = parent
            THEN WithTree(myres, shift_right_inner(T, left_inner, inner, left_parent, parentslot - 1))
            ELSE WithTree(myres, shift_left_inner(T, inner, right_inner, right_parent, parentslot))

\* the leaf part of erase_one_descend / erase_iter_descend once the slot to
\* erase is known: remove it, notify the parent of a changed last key, then
\* handle an underflow
erase_from_leaf(T, leaf, slot, left, right, left_parent, right_parent, parent, parentslot) ==
    LET T1 == [T EXCEPT !.nodes[leaf].slotkey = SeqRemoveAt(@, slot)]
        su == slotuse(T1.nodes[leaf])
        toParent == /\ slot = su
                    /\ parent # 0
                    /\ parentslot < slotuse(T1.nodes[parent])
        T2 == IF toParent
              THEN [T1 EXCEPT !.nodes[parent].slotkey[parentslot + 1] =
                                  NodeKey(T1.nodes[leaf], su - 1)]
              ELSE T1
        myres == IF slot = su /\ ~toParent /\ su >= 1
                 THEN result_t(T2, FALSE, TRUE, NodeKey(T1.nodes[leaf], su - 1), FALSE)
                 ELSE btree_ok(T2)
    IN IF is_underflow(T2.nodes[leaf]) /\ ~(leaf = T2.root_ /\ su >= 1)
       THEN leaf_underflow(myres, leaf, left, right, left_parent,
                           right_parent, parent, parentslot)
       ELSE myres

\* the btree_fixmerge branch of an inner node: free the emptied child and
\* close its slot
fixmerge(T, inner, slot0) ==
    LET N == T.nodes[inner]
        slot == IF slotuse(T.nodes[ChildId(N, slot0)]) # 0 THEN slot0 + 1 ELSE slot0
        T1 == FreeNode(T, ChildId(N, slot))
        T2 == [T1 EXCEPT !.nodes[inner].slotkey = SeqRemoveAt(N.slotkey, slot - 1),
                         !.nodes[inner].childid = SeqRemoveAt(N.childid, slot)]
        child == T2.nodes[ChildId(T2.nodes[inner], slot - 1)]
    IN IF N.level = 1 /\ slot - 1 < slotuse(T2.nodes[inner])
       THEN [T2 EXCEPT !.nodes[inner].slotkey[slot] = NodeKey(child, slotuse(child) - 1)]
       ELSE T2  \* at level 1 with slot - 1 = slotuse the key goes to an unused slot

\* the inner part of erase_one_descend / erase_iter_descend after the
\* descent into child slot returned result (not btree_not_found)
erase_in_inner(result, inner, slot, left, right, left_parent, right_parent, parent, parentslot) ==
    LET T1 == [result.T EXCEPT !.nodes[inner].subtree_size = @ - 1]
        toParent == /\ result.update_lastkey
                    /\ parent # 0
                    /\ parentslot < slotuse(T1.nodes[parent])
        T2 == IF toParent
              THEN [T1 EXCEPT !.nodes[parent].slotkey[parentslot + 1] = result.lastkey]
              ELSE T1
        T3 == IF result.fixmerge THEN fixmerge(T2, inner, slot) ELSE T2
        myres == IF result.update_lastkey /\ ~toParent
                 THEN result_t(T3, FALSE, TRUE, result.lastkey, FALSE)
                 ELSE btree_ok(T3)
    IN IF /\ is_underflow(T3.nodes[inner])
          /\ ~(inner = T3.root_ /\ slotuse(T3.nodes[inner]) >= 1)
       THEN inner_underflow(myres, inner, left, right, left_parent,
                            right_parent, parent, parentslot)
       ELSE myres

\* the siblings handed down to child slot of inner
myleft(T, inner, slot, left) ==
    IF slot = 0
    THEN IF left = 0 THEN 0
         ELSE ChildId(T.nodes[left], slotuse(T.nodes[left]) - 1)
    ELSE ChildId(T.nodes[inner], slot - 1)
myleft_parent(inner, slot, left_parent) ==
    IF slot = 0 THEN left_parent ELSE inner
myright(T, inner, slot, right) ==
    IF slot = slotuse(T.nodes[inner])
    THEN IF right = 0 THEN 0 ELSE ChildId(T.nodes[right], 0)
    ELSE ChildId(T.nodes[inner], slot + 1)
myright_parent(T, inner, slot, right_parent) ==
    IF slot = slotuse(T.nodes[inner]) THEN right_parent ELSE inner

RECURSIVE erase_one_descend(_, _, _, _, _, _, _, _, _)
\* erase_one_descend
erase_one_descend(T, key, curr, left, right, left_parent, right_parent, parent, parentslot) ==
    LET N == T.nodes[curr]
        slot == find_lower(N, key)
    IN IF is_leafnode(N)
       THEN IF slot >= slotuse(N) \/ key # NodeKey(N, slot)
            THEN btree_not_found(T)
            ELSE erase_from_leaf(T, curr, slot, left, right, left_parent,
                                 right_parent, parent, parentslot)
       ELSE LET result == erase_one_descend(T, key, ChildId(N, slot),
                              myleft(T, curr, slot, left),
                              myright(T, curr, slot, right),
                              myleft_parent(curr, slot, left_parent),
                              myright_parent(T, curr, slot, right_parent),
                              curr, slot)
            IN IF result.not_found THEN result
               ELSE erase_in_inner(result, curr, slot, left, right,
                                   left_parent, right_parent, parent, parentslot)
\* an erase_one that erases nothing
EraseOneKeeps(T, key) == T
\* erase_one(key)
erase_one(T, key) ==
    IF T.root_ = 0 THEN T
    ELSE erase_one_descend(T, key, T.root_, 0, 0, 0, 0, 0, 0).T

RECURSIVE erase_iter_descend(_, _, _, _, _, _, _, _, _)
RECURSIVE erase_iter_search(_, _, _, _, _, _, _, _)
\* the while loop of erase_iter_descend over the child slots from slot on:
\* the result of the child that held the iterator and its slot
erase_iter_search(T, iter, inner, left, right, left_parent, right_parent, slot) ==
    LET N == T.nodes[inner]
        result == erase_iter_descend(T, iter, ChildId(N, slot),
                      myleft(T, inner, slot, left),
                      myright(T, inner, slot, right),
                      myleft_parent(inner, slot, left_parent),
                      myright_parent(T, inner, slot, right_parent),
                      inner, slot)
    IN IF slot > slotuse(N) THEN [result |-> btree_not_found(T), slot |-> slot]
       ELSE IF ~result.not_found THEN [result |-> result, slot |-> slot]
       ELSE IF slot < slotuse(N) /\ NodeKey(N, slot) < iter.key
       THEN [result |-> btree_not_found(T), slot |-> slot]
       ELSE erase_iter_search(T, iter, inner, left, right, left_parent,
                              right_parent, slot + 1)

\* erase_iter_descend; iter is the leaf, the slot and the key it points to
erase_iter_descend(T, iter, curr, left, right, left_parent, right_parent, parent, parentslot) ==
    LET N == T.nodes[curr]
    IN IF is_leafnode(N)
       THEN IF curr # iter.curr_leaf \/ iter.curr_slot >= slotuse(N)
            THEN btree_not_found(T)
            ELSE erase_from_leaf(T, curr, iter.curr_slot, left, right,
                                 left_parent, right_parent, parent, parentslot)
       ELSE LET found == erase_iter_search(T, iter, curr, left, right,
                             left_parent, right_parent, find_lower(N, iter.key))
            IN IF found.result.not_found THEN btree_not_found(T)
               ELSE erase_in_inner(found.result, curr, found.slot, left, right,
                                   left_parent, right_parent, parent, parentslot)
\* an erase(iterator) that erases by the key of the iterator: the first
\* entry with that key
EraseFirstEqual(T, iter) == erase_one(T, iter.key)
\* erase(iterator)
erase_iter(T, iter) ==
    IF T.root_ = 0 THEN T
    ELSE erase_iter_descend(T, iter, T.root_, 0, 0, 0, 0, 0, 0).T

RECURSIVE IterNext(_, _, _)
\* the iterator reached from (leaf, slot) by n times operator++
IterNext(T, it, n) ==
    IF n = 0 THEN it
    ELSE IF it.curr_slot + 1 < slotuse(T.nodes[it.curr_leaf])
    THEN IterNext(T, [it EXCEPT !.curr_slot = @ + 1], n - 1)
    ELSE IF T.nodes[it.curr_leaf].next_leaf # 0
    THEN IterNext(T, [curr_leaf |-> T.nodes[it.curr_leaf].next_leaf, curr_slot |-> 0], n - 1)
    ELSE IterNext(T, [it EXCEPT !.curr_slot = slotuse(T.nodes[it.curr_leaf])], n - 1)
\* begin()
bt_begin(T) == [curr_leaf |-> T.head_leaf_, curr_slot |-> 0]
\* end()
bt_end(T) ==
    [curr_leaf |-> T.tail_leaf_,
     curr_slot |-> IF T.tail_leaf_ # 0 THEN slotuse(T.nodes[T.tail_leaf_]) ELSE 0]
\* *iter
IterKey(T, it) == NodeKey(T.nodes[it.curr_leaf], it.curr_slot)

RECURSIVE FindLeaf(_, _, _, _)
\* the descent of count / lower_bound (upper = FALSE, by find_lower) and of
\* upper_bound (upper = TRUE, by find_upper) from node n to a leaf
FindLeaf(T, n, key, upper) ==
    LET N == T.nodes[n]
        slot == IF upper THEN find_upper(N, key) ELSE find_lower(N, key)
    IN IF is_leafnode(N) THEN n ELSE FindLeaf(T, ChildId(N, slot), key, upper)

RECURSIVE CountFrom(_, _, _, _, _)
\* the counting loop of count(key) from (leaf, slot) on
CountFrom(T, leaf, slot, key, fuel) ==
    IF /\ fuel > 0 /\ leaf # 0
       /\ slot < slotuse(T.nodes[leaf])
       /\ key = NodeKey(T.nodes[leaf], slot)
    THEN 1 + (IF slot + 1 >= slotuse(T.nodes[leaf])
              THEN CountFrom(T, T.nodes[leaf].next_leaf, 0, key, fuel - 1)
              ELSE CountFrom(T, leaf, slot + 1, key, fuel - 1))
    ELSE 0

\* count(key)
bt_count(T, key) ==
    IF T.root_ = 0 THEN 0
    ELSE LET leaf == FindLeaf(T, T.root_, key, FALSE)
         IN CountFrom(T, leaf, find_lower(T.nodes[leaf], key), key, MaxSize + 1)

\* lower_bound(key)
lower_bound(T, key) ==
    IF T.root_ = 0 THEN bt_end(T)
    ELSE LET leaf == FindLeaf(T, T.root_, key, FALSE)
         IN [curr_leaf |-> leaf, curr_slot |-> find_lower(T.nodes[leaf], key)]

\* upper_bound(key)
upper_bound(T, key) ==
    IF T.root_ = 0 THEN bt_end(T)
    ELSE LET leaf == FindLeaf(T, T.root_, key, TRUE)
         IN [curr_leaf |-> leaf, curr_slot |-> find_upper(T.nodes[leaf], key)]

\* the number of operator++ from begin() to it, -1 if it is not reached by
\* iterating from begin() to end()
IterPos(T, it) ==
    LET reach == {n \in 0 .. bt_size(T) :
                     T.root_ # 0 /\ IterNext(T, bt_begin(T), n) = it}
    IN IF T.root_ = 0 THEN (IF it = bt_end(T) THEN 0 ELSE -1)
       ELSE IF reach = {} THEN -1 ELSE SetMin(reach)

\* the keys met iterating from begin() to end()
InOrder(T) ==
    IF T.root_ = 0 THEN <<>>
    ELSE [i \in 1 .. bt_size(T) |-> IterKey(T, IterNext(T, bt_begin(T), i - 1))]

\* the reference multiset: count, lower_bound and upper_bound positions
RefCount(q, x) == Cardinality({i \in 1 .. Len(q) : q[i] = x})
RefLowerBound(q, x) == Cardinality({i \in 1 .. Len(q) : q[i] < x})
RefUpperBound(q, x) == Cardinality({i \in 1 .. Len(q) : q[i] <= x})

(***************************************************************************)
(* Join.  The functions of join work on two BTree objects whose nodes live *)
(* in one heap: the tree record of this, with the members of other_tree in *)
(* the field other.  The parameter tail is a reference: to a tail_leaf_    *)
(* outside the two trees (the field tail) or, when alias holds, to the     *)
(* tail_leaf_ of this.                                                     *)
(***************************************************************************)
WithOther(T, other, tail, alias) ==
    [nodes |-> T.nodes, root_ |-> T.root_, head_leaf_ |-> T.head_leaf_,
     tail_leaf_ |-> T.tail_leaf_, fix |-> T.fix,
     other |-> other, tail |-> tail, alias |-> alias]
\* tail = v
TailSet(T, v) ==
    IF T.alias THEN [T EXCEPT !.tail_leaf_ = v] ELSE [T EXCEPT !.tail = v]
\* a size() that finds every other_tree empty
OtherSizeZero(T) == 0
\* other_tree.size()
OtherSize(T) == IF T.other.root_ = 0 THEN 0 ELSE NodeSize(T, T.other.root_)

\* join_leaves: the trees, MERGED / SPLITED / NO_DIFF, *newkey and
\* *newchild (0 where the code leaves the caller's nullptr)
join_leaves(T, n, other_node, key) ==
    LET L == T.nodes[n]
        O == T.nodes[other_node]
        dl == leaf_slotmin - slotuse(L)
        dr == leaf_slotmin - slotuse(O)
        T0 == Called(T, "join_leaves")
        Tl == Called(T0, "join_leaves_left")
        Tr == Called(T0, "join_leaves_right")
    IN IF leaf_slotmax >= slotuse(L) + slotuse(O)
       THEN LET T1 == [Called(T0, "join_leaves_merged") EXCEPT
                              !.nodes[n].slotkey = L.slotkey \o O.slotkey,
                                 !.nodes[n].next_leaf = O.next_leaf]
                T2 == IF O.next_leaf # 0
                      THEN [T1 EXCEPT !.nodes[O.next_leaf].prev_leaf = n]
                      ELSE TailSet(T1, n)
            IN [T |-> T2, type |-> "MERGED", newkey |-> key, newchild |-> 0]
       ELSE IF slotuse(L) < leaf_slotmin
       THEN [T |-> [Tl EXCEPT !.nodes[n].slotkey = L.slotkey \o SubSeq(O.slotkey, 1, dl),
                              !.nodes[other_node].slotkey =
                                  SubSeq(O.slotkey, dl + 1, slotuse(O))],
             type |-> "SPLITED",
             newkey |-> (L.slotkey \o SubSeq(O.slotkey, 1, dl))[leaf_slotmin],
             newchild |-> other_node]
       ELSE IF slotuse(O) < leaf_slotmin
       THEN [T |-> [Tr EXCEPT !.nodes[n].slotkey = SubSeq(L.slotkey, 1, slotuse(L) - dr),
                              !.nodes[other_node].slotkey =
                                  SubSeq(L.slotkey, slotuse(L) - dr + 1, slotuse(L))
                                  \o O.slotkey],
             type |-> "SPLITED",
             newkey |-> NodeKey(L, slotuse(L) - dr - 1),
             newchild |-> other_node]
       ELSE [T |-> T0, type |-> "NO_DIFF", newkey |-> key, newchild |-> other_node]

\* join_inner: as join_leaves, for two inner nodes and the key between them
join_inner(T, n, other_node, key) ==
    LET I == T.nodes[n]
        O == T.nodes[other_node]
        dl == inner_slotmin - slotuse(I)
        dr == inner_slotmin - slotuse(O)
        T0 == Called(T, "join_inner")
        Tl == Called(T0, "join_inner_left")
        Tr == Called(T0, "join_inner_right")
    IN IF inner_slotmax >= slotuse(I) + slotuse(O) + 1
       THEN [T |-> [Called(T0, "join_inner_merged") EXCEPT
                       !.nodes[n].slotkey = I.slotkey \o <<key>> \o O.slotkey,
                              !.nodes[n].childid = I.childid \o O.childid,
                              !.nodes[n].subtree_size = I.subtree_size + O.subtree_size],
             type |-> "MERGED", newkey |-> key, newchild |-> 0]
       ELSE IF slotuse(I) < inner_slotmin
       THEN [T |-> [shift_subtree_size(Tl, other_node, n, dl, 0) EXCEPT
                       !.nodes[n].slotkey =
                           I.slotkey \o <<key>> \o SubSeq(O.slotkey, 1, dl - 1),
                       !.nodes[n].childid = I.childid \o SubSeq(O.childid, 1, dl),
                       !.nodes[other_node].slotkey =
                           SubSeq(O.slotkey, dl + 1, slotuse(O)),
                       !.nodes[other_node].childid =
                           SubSeq(O.childid, dl + 1, slotuse(O) + 1)],
             type |-> "SPLITED", newkey |-> NodeKey(O, dl - 1),
             newchild |-> other_node]
       ELSE IF slotuse(O) < inner_slotmin
       THEN [T |-> [shift_subtree_size(Tr, n, other_node, dr, slotuse(I) - (dr - 1))
                    EXCEPT
                       !.nodes[other_node].slotkey =
                           SubSeq(I.slotkey, slotuse(I) - dr + 2, slotuse(I))
                           \o <<key>> \o O.slotkey,
                       !.nodes[other_node].childid =
                           SubSeq(I.childid, slotuse(I) - dr + 2, slotuse(I) + 1)
                           \o O.childid,
                       !.nodes[n].slotkey = SubSeq(I.slotkey, 1, slotuse(I) - dr),
                       !.nodes[n].childid = SubSeq(I.childid, 1, slotuse(I) - dr + 1)],
             type |-> "SPLITED", newkey |-> NodeKey(I, slotuse(I) - dr),
             newchild |-> other_node]
       ELSE [T |-> T0, type |-> "NO_DIFF", newkey |-> key, newchild |-> other_node]

\* InnerNode::copy_slots_from: node n takes the slots and size of node from
copy_slots_from(T, n, from) ==
    [T EXCEPT !.nodes[n].slotkey = T.nodes[from].slotkey,
              !.nodes[n].childid = T.nodes[from].childid,
              !.nodes[n].subtree_size = T.nodes[from].subtree_size]
\* a swap after which both nodes hold what node m held
SwapInnerOneWay(T, n, m) == [T EXCEPT !.nodes[n] = T.nodes[m]]
\* InnerNode::swap: the two nodes exchange level, slots and size
SwapInner(T, n, m) ==
    [T EXCEPT !.nodes[n] = T.nodes[m], !.nodes[m] = T.nodes[n]]

RECURSIVE join_less_descend(_, _, _)
\* join_less_descend: the trees, the node now at the reference n, *splitkey,
\* *splitnode (0 if none) and *leaves_merged
join_less_descend(T, n, key) ==
    LET N == T.nodes[n]
        oroot == T.other.root_
    IN IF ~is_leafnode(N)
       THEN IF N.level > T.nodes[oroot].level
            THEN LET T1 == [T EXCEPT !.nodes[n].subtree_size = @ + OtherSize(T)]
                     r == join_less_descend(T1, ChildId(N, 0), key)
                     T2 == [r.T EXCEPT !.nodes[n].childid[1] = r.n]
                     full == is_full(T2.nodes[n])
                     sp == split_inner_node(T2, n, 0)
                     T3 == IF full
                           THEN [sp.T EXCEPT !.nodes[n].subtree_size =
                                                 @ + NodeSize(sp.T, r.splitnode)]
                           ELSE T2
                     I == T3.nodes[n]
                     T4 == [T3 EXCEPT
                              !.nodes[n].slotkey = <<r.splitkey>> \o I.slotkey,
                              !.nodes[n].childid = <<ChildId(I, 0), r.splitnode>>
                                                   \o SubSeq(I.childid, 2, slotuse(I) + 1)]
                 IN IF r.splitnode # 0
                    THEN [T |-> T4, n |-> n,
                          splitkey |-> IF full THEN sp.newkey ELSE 0,
                          splitnode |-> IF full THEN sp.newinner ELSE 0,
                          leaves_merged |-> r.leaves_merged]
                    ELSE [T |-> T2, n |-> n, splitkey |-> 0, splitnode |-> 0,
                          leaves_merged |-> r.leaves_merged]
            ELSE LET j == join_inner(T, oroot, n, key)
                 IN IF j.type = "MERGED"
                    THEN [T |-> FreeNode(copy_slots_from(j.T, n, oroot), oroot),
                          n |-> n, splitkey |-> j.newkey, splitnode |-> 0,
                          leaves_merged |-> "NONE"]
                    ELSE [T |-> SwapInner(j.T, n, oroot), n |-> n,
                          splitkey |-> j.newkey, splitnode |-> oroot,
                          leaves_merged |-> "NONE"]
       ELSE LET j == join_leaves(T, oroot, n, key)
            IN IF j.type = "MERGED"
               THEN [T |-> FreeNode(j.T, n), n |-> oroot, splitkey |-> j.newkey,
                     splitnode |-> 0, leaves_merged |-> j.type]
               ELSE [T |-> j.T, n |-> oroot, splitkey |-> j.newkey,
                     splitnode |-> n, leaves_merged |-> j.type]

RECURSIVE join_greater_descend(_, _, _)
\* join_greater_descend: the trees, *splitkey, *splitnode (0 if none) and
\* *leaves_merged
join_greater_descend(T, n, key) ==
    LET N == T.nodes[n]
        oroot == T.other.root_
    IN IF ~is_leafnode(N)
       THEN IF N.level > T.nodes[oroot].level
            THEN LET T1 == [T EXCEPT !.nodes[n].subtree_size = @ + OtherSize(T)]
                     r == join_greater_descend(T1, ChildId(N, slotuse(N)), key)
                     full == is_full(r.T.nodes[n])
                     sp == split_inner_node(r.T, n, slotuse(r.T.nodes[n]))
                     inner == IF full THEN sp.newinner ELSE n
                     T3 == IF full
                           THEN [sp.T EXCEPT !.nodes[inner].subtree_size =
                                                 @ + NodeSize(sp.T, r.splitnode)]
                           ELSE r.T
                     T4 == [T3 EXCEPT
                              !.nodes[inner].slotkey = Append(@, r.splitkey),
                              !.nodes[inner].childid = Append(@, r.splitnode)]
                 IN IF r.splitnode # 0
                    THEN [T |-> T4,
                          splitkey |-> IF full THEN sp.newkey ELSE 0,
                          splitnode |-> IF full THEN sp.newinner ELSE 0,
                          leaves_merged |-> r.leaves_merged]
                    ELSE [T |-> r.T, splitkey |-> 0, splitnode |-> 0,
                          leaves_merged |-> r.leaves_merged]
            ELSE LET j == join_inner(T, n, oroot, key)
                 IN [T |-> IF j.type = "MERGED" THEN FreeNode(j.T, oroot) ELSE j.T,
                     splitkey |-> j.newkey, splitnode |-> j.newchild,
                     leaves_merged |-> "NONE"]
       ELSE LET j == join_leaves(T, n, oroot, key)
            IN IF j.type = "MERGED"
               THEN [T |-> FreeNode([j.T EXCEPT !.other.tail_leaf_ = n], oroot),
                     splitkey |-> j.newkey, splitnode |-> 0,
                     leaves_merged |-> j.type]
               ELSE [T |-> j.T, splitkey |-> j.newkey, splitnode |-> j.newchild,
                     leaves_merged |-> "NONE"]

\* the end of join_less_start and join_greater_start: r is the result of
\* the descent or of the join of the two roots
JoinNewRoot(r, T1) ==
    IF r.newchild # 0 THEN new_root(T1, r.newchild, r.newkey) ELSE T1

\* join_less_start
join_less_start(T, key) ==
    LET root == T.root_
        oroot == T.other.root_
        FromDescend(d) ==
            [T |-> d.T, newkey |-> d.splitkey, newchild |-> d.splitnode]
        FromLeaves(jl) ==
            IF jl.type = "MERGED"
            THEN [T |-> [FreeNode(jl.T, root) EXCEPT !.root_ = oroot,
                                                     !.tail_leaf_ = oroot],
                  newkey |-> jl.newkey, newchild |-> 0]
            ELSE [T |-> [jl.T EXCEPT !.root_ = oroot],
                  newkey |-> jl.newkey, newchild |-> root]
        FromInner(ji) ==
            IF ji.type = "MERGED"
            THEN [T |-> FreeNode(copy_slots_from(ji.T, root, oroot), oroot),
                  newkey |-> ji.newkey, newchild |-> 0]
            ELSE [T |-> SwapInner(ji.T, root, oroot),
                  newkey |-> ji.newkey, newchild |-> oroot]
    IN Bind(IF T.nodes[root].level > T.nodes[oroot].level
            THEN FromDescend(join_less_descend(T, root, key))
            ELSE IF is_leafnode(T.nodes[root])
            THEN FromLeaves(join_leaves(T, oroot, root, key))
            ELSE FromInner(join_inner(T, oroot, root, key)),
            LAMBDA r : JoinNewRoot(r, [r.T EXCEPT !.head_leaf_ = r.T.other.head_leaf_]))

\* join_greater_start
join_greater_start(T, key) ==
    LET root == T.root_
        oroot == T.other.root_
        FromDescend(d) ==
            [T |-> d.T, newkey |-> d.splitkey, newchild |-> d.splitnode]
        FromLeaves(jl) ==
            IF jl.type = "MERGED"
            THEN [T |-> FreeNode([jl.T EXCEPT !.other.tail_leaf_ = root], oroot),
                  newkey |-> jl.newkey, newchild |-> 0]
            ELSE [T |-> jl.T, newkey |-> jl.newkey, newchild |-> jl.newchild]
        FromInner(ji) ==
            [T |-> IF ji.type = "MERGED" THEN FreeNode(ji.T, oroot) ELSE ji.T,
             newkey |-> ji.newkey, newchild |-> ji.newchild]
    IN Bind(IF T.nodes[root].level > T.nodes[oroot].level
            THEN FromDescend(join_greater_descend(T, root, key))
            ELSE IF is_leafnode(T.nodes[root])
            THEN FromLeaves(join_leaves(T, root, oroot, key))
            ELSE FromInner(join_inner(T, root, oroot, key)),
            LAMBDA r : JoinNewRoot(r, [r.T EXCEPT !.tail_leaf_ = r.T.other.tail_leaf_]))

\* the members of the BTree object T
Hdr(T) == [root_ |-> T.root_, head_leaf_ |-> T.head_leaf_, tail_leaf_ |-> T.tail_leaf_]
\* the BTree object with members hdr in the heap of T
TreeAt(T, hdr) ==
    [T EXCEPT !.root_ = hdr.root_, !.head_leaf_ = hdr.head_leaf_,
              !.tail_leaf_ = hdr.tail_leaf_]
\* swap(other_tree)
SwapTrees(T) == [TreeAt(T, T.other) EXCEPT !.other = Hdr(T)]

\* join_less(key, other_tree, tail)
join_less(T, key) ==
    IF bt_size(T) = 0 THEN SwapTrees(T)
    ELSE LET T1 == [T EXCEPT !.head_leaf_ = T.other.head_leaf_]
         IN IF OtherSize(T1) = 0 THEN T1
            ELSE [join_less_start(T1, key) EXCEPT !.other = NoHdr]

\* join_greater(key, other_tree, tail)
join_greater(T, key) ==
    IF bt_size(T) = 0 THEN SwapTrees(T)
    ELSE LET T1 == [T EXCEPT !.tail_leaf_ = T.other.tail_leaf_]
         IN IF OtherSize(T1) = 0 THEN T1
            ELSE [join_greater_start(T1, key) EXCEPT !.other = NoHdr]

\* join(other_tree): this is T, other_tree is T.other; tail is a reference
\* to the tail_leaf_ of the tree join_less or join_greater is called on
join(T) ==
    IF bt_size(T) = 0 THEN SwapTrees(T)
    ELSE IF OtherSize(T) = 0 THEN T
    ELSE LET T1 == [T EXCEPT !.nodes[T.tail_leaf_].next_leaf = T.other.head_leaf_,
                             !.nodes[T.other.head_leaf_].prev_leaf = T.tail_leaf_,
                             !.alias = TRUE]
             last == T1.nodes[T1.tail_leaf_]
             key == NodeKey(last, slotuse(last) - 1)
         IN IF T1.nodes[T1.root_].level >= T1.nodes[T1.other.root_].level
            THEN join_greater(T1, key)
            \* other_tree.join_less(key, *this, other_tree.tail_leaf_) leaves
            \* the joined tree in other_tree; swap(other_tree) brings it to this
            ELSE join_less(SwapTrees(T1), key)

(***************************************************************************)
(* Split.  T is the tree split (this); left and right are the members of   *)
(* the two trees built, in the heap of T.                                  *)
(***************************************************************************)
\* split_inner_node(n, slot, left, right): the children before slot go to
\* left, those after slot to right; the node n stays on the larger side
split_inner_node_lr(T, n, slot) ==
    LET N == T.nodes[n]
        keep_left == 2 * slot >= slotuse(N)
        fresh == NewNode(T)
        new_left_root == IF keep_left THEN n ELSE IF slot # 0 THEN fresh ELSE 0
        new_right_root == IF ~keep_left THEN n
                          ELSE IF slot # slotuse(N) THEN fresh ELSE 0
        T1 == IF slot > 0
              THEN LET Tl == SetNode(T, new_left_root,
                                     MkInner(N.level, SubSeq(N.slotkey, 1, slot - 1),
                                             SubSeq(N.childid, 1, slot), 0))
                   IN [Tl EXCEPT !.nodes[new_left_root].subtree_size =
                                     sum_subtree_size(Tl, new_left_root, 0, slot)]
              ELSE T
        T2 == IF slot < slotuse(N)
              THEN LET Tr == SetNode(T1, new_right_root,
                                     MkInner(N.level,
                                             SubSeq(N.slotkey, slot + 2, slotuse(N)),
                                             SubSeq(N.childid, slot + 2, slotuse(N) + 1),
                                             0))
                   IN [Tr EXCEPT !.nodes[new_right_root].subtree_size =
                                     sum_subtree_size(Tr, new_right_root, 0,
                                                      slotuse(N) - slot)]
              ELSE T1
        collapse_left == new_left_root # 0 /\ slotuse(T2.nodes[new_left_root]) = 0
        T3 == IF collapse_left THEN FreeNode(T2, new_left_root) ELSE T2
        collapse_right == new_right_root # 0 /\ slotuse(T2.nodes[new_right_root]) = 0
        T4 == IF collapse_right THEN FreeNode(T3, new_right_root) ELSE T3
    IN [T |-> Called(T4, "split_inner_node_lr"),
        left |-> [NoHdr EXCEPT !.root_ = IF collapse_left
                                         THEN ChildId(T2.nodes[new_left_root], 0)
                                         ELSE new_left_root],
        lkey |-> IF slot > 0 THEN NodeKey(N, slot - 1) ELSE 0,
        right |-> [NoHdr EXCEPT !.root_ = IF collapse_right
                                          THEN ChildId(T2.nodes[new_right_root], 0)
                                          ELSE new_right_root],
        rkey |-> IF slot < slotuse(N) THEN NodeKey(N, slot) ELSE 0]

\* split_leaf_node(n, slot, left, right): the items before slot go to left,
\* the others to right
split_leaf_node_lr(T, n, slot) ==
    LET N == T.nodes[n]
        keep_left == 2 * slot >= slotuse(N)
        fresh == NewNode(T)
        nl == IF keep_left THEN n ELSE fresh
        nr == IF keep_left THEN fresh ELSE n
        T1 == SetNode(SetNode(T, nl, MkLeaf(SubSeq(N.slotkey, 1, slot),
                                            N.prev_leaf, nr)),
                      nr, MkLeaf(SubSeq(N.slotkey, slot + 1, slotuse(N)),
                                 nl, N.next_leaf))
        T2 == IF N.next_leaf # 0
              THEN [T1 EXCEPT !.nodes[N.next_leaf].prev_leaf = nr]
              ELSE [T1 EXCEPT !.tail_leaf_ = nr]
        T3 == IF N.prev_leaf # 0
              THEN [T2 EXCEPT !.nodes[N.prev_leaf].next_leaf = nl]
              ELSE [T2 EXCEPT !.head_leaf_ = nl]
    IN IF slot = 0
       THEN [T |-> T,
             left |-> [root_ |-> 0, head_leaf_ |-> N.prev_leaf,
                       tail_leaf_ |-> N.prev_leaf],
             right |-> [root_ |-> n, head_leaf_ |-> n, tail_leaf_ |-> n]]
       ELSE IF slot = slotuse(N)
       THEN [T |-> T,
             left |-> [root_ |-> n, head_leaf_ |-> n, tail_leaf_ |-> n],
             right |-> [root_ |-> 0, head_leaf_ |-> N.next_leaf,
                        tail_leaf_ |-> N.next_leaf]]
       ELSE [T |-> Called(T3, "split_leaf_node_lr"),
             left |-> [root_ |-> nl, head_leaf_ |-> nl, tail_leaf_ |-> nl],
             right |-> [root_ |-> nr, head_leaf_ |-> nr, tail_leaf_ |-> nr]]

RECURSIVE SplitRecursiveLower(_, _, _)
\* a split_recursive that finds the slot by find_lower, so that the items
\* equal to key go to right
SplitRecursiveLower(T, n, key) ==
    LET N == T.nodes[n]
        slot == find_lower(N, key)
        s == split_inner_node_lr(T, n, slot)
        b == SplitRecursiveLower(s.T, ChildId(N, slot), key)
        jl == join_greater(WithOther(TreeAt(b.T, s.left), b.left,
                                     b.T.tail_leaf_, FALSE), s.lkey)
        jr == join_less(WithOther(TreeAt(jl, s.right), b.right, jl.tail, FALSE),
                        s.rkey)
    IN IF is_leafnode(N)
       THEN split_leaf_node_lr(T, n, slot)
       ELSE [T |-> [nodes |-> jr.nodes, root_ |-> T.root_,
                    head_leaf_ |-> b.T.head_leaf_, tail_leaf_ |-> jr.tail,
                    fix |-> jr.fix],
             left |-> Hdr(jl), right |-> Hdr(jr)]

RECURSIVE split_recursive(_, _, _)
\* split_recursive(n, left, key, right): the tree split, left and right
split_recursive(T, n, key) ==
    LET N == T.nodes[n]
        slot == find_upper(N, key)
    IN IF is_leafnode(N)
       THEN split_leaf_node_lr(T, n, slot)
       ELSE
         Bind(split_inner_node_lr(T, n, slot), LAMBDA s :
         Bind(split_recursive(s.T, ChildId(N, slot), key), LAMBDA b :
         \* new_left.first.join_greater(new_left.second, bottom_left, tail_leaf_)
         Bind(join_greater(WithOther(TreeAt(b.T, s.left), b.left,
                                     b.T.tail_leaf_, FALSE), s.lkey), LAMBDA jl :
         \* new_right.first.join_less(new_right.second, bottom_right, tail_leaf_)
         Bind(join_less(WithOther(TreeAt(jl, s.right), b.right, jl.tail, FALSE),
                        s.rkey), LAMBDA jr :
            [T |-> [nodes |-> jr.nodes, root_ |-> T.root_,
                    head_leaf_ |-> b.T.head_leaf_, tail_leaf_ |-> jr.tail,
                    fix |-> jr.fix],
             left |-> Hdr(jl), right |-> Hdr(jr)]))))

\* a split that leaves the leaf lists of left and right linked to each other
SplitUncut(T, key) ==
    LET r == split_recursive(T, T.root_, key)
        left_empty == bt_size(TreeAt(r.T, r.left)) = 0
        right_empty == bt_size(TreeAt(r.T, r.right)) = 0
        left == IF left_empty THEN [r.left EXCEPT !.head_leaf_ = 0]
                ELSE [r.left EXCEPT !.head_leaf_ = r.T.head_leaf_]
        right == IF right_empty THEN [r.right EXCEPT !.tail_leaf_ = 0]
                 ELSE [r.right EXCEPT !.tail_leaf_ = r.T.tail_leaf_]
    IN IF bt_size(T) = 0 THEN [T |-> T, left |-> NoHdr, right |-> NoHdr]
       ELSE [T |-> TreeAt(r.T, NoHdr), left |-> left, right |-> right]

\* split(left, key, right), left and right empty before: the tree split
\* (empty afterwards), left and right
split(T, key) ==
    IF bt_size(T) = 0 THEN [T |-> T, left |-> NoHdr, right |-> NoHdr]
    ELSE
      Bind(split_recursive(T, T.root_, key), LAMBDA r :
        LET left_empty == bt_size(TreeAt(r.T, r.left)) = 0
            right_empty == bt_size(TreeAt(r.T, r.right)) = 0
            left == IF left_empty THEN [r.left EXCEPT !.head_leaf_ = 0]
                    ELSE [r.left EXCEPT !.head_leaf_ = r.T.head_leaf_]
            right == IF right_empty THEN [r.right EXCEPT !.tail_leaf_ = 0]
                     ELSE [r.right EXCEPT !.tail_leaf_ = r.T.tail_leaf_]
            T1 == IF left_empty THEN r.T
                  ELSE [r.T EXCEPT !.nodes[left.tail_leaf_].next_leaf = 0]
            T2 == IF right_empty THEN T1
                  ELSE [T1 EXCEPT !.nodes[right.head_leaf_].prev_leaf = 0]
        IN [T |-> TreeAt(T2, NoHdr), left |-> left, right |-> right])

(***************************************************************************)
(* Ranks.                                                                  *)
(***************************************************************************)
RECURSIVE RankDescend(_, _, _, _, _)
\* the loop and the leaf step of rankImpl<Query> from node n on, result
\* items counted so far: the rank and the iterator
RankDescend(T, n, key, Query, result) ==
    LET N == T.nodes[n]
        slot == IF Query = "UPPER_BOUND" THEN find_upper(N, key) ELSE find_lower(N, key)
    IN IF ~is_leafnode(N)
       THEN RankDescend(T, ChildId(N, slot), key, Query,
                        result + sum_subtree_size(T, n, 0, slot))
       ELSE IF slot < slotuse(N) /\ (Query # "EXACT" \/ key = NodeKey(N, slot))
       THEN [rank |-> result + slot, iter |-> [curr_leaf |-> n, curr_slot |-> slot]]
       ELSE [rank |-> bt_size(T), iter |-> bt_end(T)]

\* rankImpl<Query>(key)
rankImpl(T, key, Query) ==
    IF T.root_ = 0 THEN [rank |-> 0, iter |-> bt_end(T)]
    ELSE RankDescend(T, T.root_, key, Query, 0)

\* rank_of_lower_bound(key)
rank_of_lower_bound(T, key) == rankImpl(T, key, "LOWER_BOUND")
\* a rank_of_upper_bound that stops at the first item equal to key
RankOfUpperBoundAsLower(T, key) == rankImpl(T, key, "LOWER_BOUND")
\* rank_of_upper_bound(key)
rank_of_upper_bound(T, key) == rankImpl(T, key, "UPPER_BOUND")

\* std::distance(first, last): the number of ++ from first to last; -1
\* stands for a last never reached
Distance(T, first, last) ==
    LET reach == {n \in 0 .. bt_size(T) : IterNext(T, first, n) = last}
    IN IF reach = {} THEN -1 ELSE SetMin(reach)

\* rank_of(iter)
rank_of(T, iter) ==
    IF iter = bt_end(T) THEN bt_size(T)
    ELSE LET r == rankImpl(T, IterKey(T, iter), "EXACT")
         IN r.rank + Distance(T, r.iter, iter)

\* a find_rank that takes the rank for a slot of the first leaf
FindRankInHead(T, rank) ==
    IF rank >= bt_size(T) THEN bt_end(T)
    ELSE [curr_leaf |-> T.head_leaf_, curr_slot |-> rank]

RECURSIVE find_rank_descend(_, _, _)
\* the loops of find_rank below node n: the first child whose size exceeds
\* what is left of rank, with the sizes of the children before it taken off
find_rank_descend(T, n, rank) ==
    LET N == T.nodes[n]
        i == CHOOSE j \in 0 .. slotuse(N) :
                /\ sum_subtree_size(T, n, 0, j + 1) > rank
                /\ \A h \in 0 .. (j - 1) : sum_subtree_size(T, n, 0, h + 1) <= rank
    IN IF is_leafnode(N) THEN [curr_leaf |-> n, curr_slot |-> rank]
       ELSE find_rank_descend(T, ChildId(N, i), rank - sum_subtree_size(T, n, 0, i))

\* find_rank(rank)
find_rank(T, rank) ==
    IF rank >= bt_size(T) THEN bt_end(T)
    ELSE find_rank_descend(T, T.root_, rank)
\* an operator-- that steps back without looking for begin()
PrevUnchecked(T, it) == [it EXCEPT !.curr_slot = @ - 1]
\* --iter
bt_prev(T, it) ==
    IF it.curr_slot > 0 THEN [it EXCEPT !.curr_slot = @ - 1]
    ELSE IF T.nodes[it.curr_leaf].prev_leaf # 0
    THEN [curr_leaf |-> T.nodes[it.curr_leaf].prev_leaf,
          curr_slot |-> slotuse(T.nodes[T.nodes[it.curr_leaf].prev_leaf]) - 1]
    ELSE [it EXCEPT !.curr_slot = 0]

\* a splitAt loop that moves nothing back
NoMoveBack(T, left, right, k) == [T |-> T, left |-> left, right |-> right]

RECURSIVE MoveBack(_, _, _, _)
\* the loop of splitAt: while left holds more than k items its last item is
\* inserted into right and erased from left
MoveBack(T, left, right, k) ==
    LET L == TreeAt(T, left)
        moved == bt_prev(L, bt_end(L))
    IN IF bt_size(L) > k
       THEN Bind(insert_start(TreeAt(T, right), IterKey(L, moved)), LAMBDA R1 :
            Bind(erase_iter(TreeAt(R1, left),
                            [curr_leaf |-> moved.curr_leaf,
                             curr_slot |-> moved.curr_slot,
                             key |-> IterKey(L, moved)]), LAMBDA L1 :
               MoveBack(L1, Hdr(L1), Hdr(R1), k)))
       ELSE [T |-> T, left |-> left, right |-> right]

\* splitAt(left, k, right), left and right empty before: the tree split
\* (empty afterwards), left and right
splitAt(T, k) ==
    LET iter == find_rank(T, k)
        it1 == bt_prev(T, iter)
    IN IF k <= 0 THEN [T |-> TreeAt(T, NoHdr), left |-> NoHdr, right |-> Hdr(T)]
       ELSE Bind(split(T, IterKey(T, it1)), LAMBDA sp :
            Bind(MoveBack(sp.T, sp.left, sp.right, k), LAMBDA mb :
               [T |-> TreeAt(mb.T, Hdr(sp.T)), left |-> mb.left, right |-> mb.right]))

(***************************************************************************)
(* Addresses.  No function of the tree compares or orders addresses, it    *)
(* only follows them, so a heap stands for every heap that differs from it *)
(* in the addresses alone.  Between operations the nodes of a tree that    *)
(* passes verify() are kept numbered in pre-order from the root.           *)
(***************************************************************************)
RECURSIVE PreOrder(_, _)
\* the nodes below and including n, parents first, children left to right
PreOrder(T, n) ==
    LET N == T.nodes[n]
        below[slot \in 0 .. slotuse(N) + 1] ==
            IF slot > slotuse(N) THEN <<>>
            ELSE PreOrder(T, ChildId(N, slot)) \o below[slot + 1]
    IN IF is_leafnode(N) THEN <<n>> ELSE <<n>> \o below[0]

\* T with node order[i] at address i
Renumber(T, order) ==
    LET addr(n) == IF n = 0 THEN 0 ELSE CHOOSE i \in 1 .. Len(order) : order[i] = n
    IN [T EXCEPT
          !.nodes = [i \in 1 .. Len(order) |->
                        LET N == T.nodes[order[i]]
                        IN [N EXCEPT !.childid = [c \in DOMAIN N.childid |-> addr(N.childid[c])],
                                     !.prev_leaf = addr(N.prev_leaf),
                                     !.next_leaf = addr(N.next_leaf)]],
          !.root_ = addr(T.root_),
          !.head_leaf_ = addr(T.head_leaf_),
          !.tail_leaf_ = addr(T.tail_leaf_)]

\* the tree an operation leaves behind, up to addresses
UpToAddresses(T) ==
    IF T.root_ # 0 /\ verify(T) /\ Len(PreOrder(T, T.root_)) = Cardinality(DOMAIN T.nodes)
    THEN Renumber(T, PreOrder(T, T.root_))
    ELSE T

(***************************************************************************)
(* SpecTree: one tree and a reference multiset under the same operations.  *)
(***************************************************************************)
\* insert(key) on the tree, the same on the reference
Insert(key) ==
    /\ Len(ref) < MaxSize
    /\ bt' = UpToAddresses(insert_start(Entering(bt), key))
    /\ ref' = SeqInsert(ref, key)
    /\ lastop' = "insert"
    /\ UNCHANGED <<erased, tr1, tr2, arg, variant, tree, req, pe, resVars>>

\* erase_one(key) on the tree; the reference loses one item equal to key, if
\* it has one
EraseOne(key) ==
    /\ bt' = UpToAddresses(erase_one(Entering(bt), key))
    /\ ref' = IF RefCount(ref, key) = 0 THEN ref
              ELSE SeqRemoveAt(ref, RefLowerBound(ref, key))
    /\ lastop' = "erase_one"
    /\ erased' = TRUE
    /\ UNCHANGED <<tr1, tr2, arg, variant, tree, req, pe, resVars>>

\* erase(iterator) with the iterator pos steps after begin(); the reference
\* loses the item at the same position
EraseIter(pos) ==
    /\ pos < Len(ref)
    /\ LET it == IterNext(bt, bt_begin(bt), pos)
       IN bt' = UpToAddresses(erase_iter(Entering(bt),
                                         [curr_leaf |-> it.curr_leaf,
                                          curr_slot |-> it.curr_slot,
                                          key |-> IterKey(bt, it)]))
    /\ ref' = SeqRemoveAt(ref, pos)
    /\ lastop' = "erase_iter"
    /\ erased' = TRUE
    /\ UNCHANGED <<tr1, tr2, arg, variant, tree, req, pe, resVars>>

InitTree ==
    /\ NoTree
    /\ variant = "single"
    /\ tree = [w \in PE |-> <<>>]
    /\ req = [kmin |-> 0, kmax |-> 0]
    /\ pe = [w \in PE |-> IdleWorker]
    /\ threshold_ = [w \in PE |-> 0]
    /\ batch_id_ = [w \in PE |-> 0]
    /\ smallest = <<>>
    /\ batch = NoBatch

\* the keys inserted into and erased from the tree
TreeKeys == 1 .. MaxTreeKey

NextTree ==
    \/ \E key \in TreeKeys : Insert(key)
    \/ \E key \in TreeKeys : EraseOne(key)
    \/ \E pos \in 0 .. (MaxSize - 1) : EraseIter(pos)

SpecTree == InitTree /\ [][NextTree]_vars

\* the level of the root, -1 for the empty tree
RootLevel == IF bt.root_ = 0 THEN -1 ELSE bt.nodes[bt.root_].level

\* C8: from an empty tree, after every insert of a sequence of inserts
\* (any keys, duplicates allowed) verify() succeeds.
C8_VerifyAfterInsert ==
    (lastop = "insert" /\ ~erased) => verify(bt)
\* an insert into a tree never erased from has split a leaf and the inner
\* node above it and made a new root, with a duplicated key in the tree
C8_Witness ==
    /\ lastop = "insert" /\ ~erased
    /\ {"split_leaf_node", "split_inner_node", "new_root"} \subseteq bt.fix
    /\ RootLevel = 2
    /\ \E x \in TreeKeys : RefCount(ref, x) >= 2
    /\ verify(bt)

\* C9: in any interleaving of inserts and erases (erase_one and
\* erase(iterator)) from an empty tree, verify() succeeds after every erase.
C9_VerifyAfterErase ==
    lastop \in {"erase_one", "erase_iter"} => verify(bt)
\* an erase has merged two leaves and then shifted children between two
\* inner nodes, and the tree still has inner nodes below the root
C9_Witness ==
    /\ lastop \in {"erase_one", "erase_iter"}
    /\ "merge_leaves" \in bt.fix
    /\ bt.fix \cap {"shift_left_inner", "shift_right_inner"} # {}
    /\ RootLevel = 2
    /\ verify(bt)

\* C10: after every operation the tree and the reference multiset agree on
\* size, on the in-order iteration sequence, on count(x) and on the
\* positions of lower_bound(x) and upper_bound(x) for every key x.
C10_AgreesWithReference ==
    /\ bt_size(bt) = Len(ref)
    /\ InOrder(bt) = ref
    /\ \A x \in AnyKey :
          /\ bt_count(bt, x) = RefCount(ref, x)
          /\ IterPos(bt, lower_bound(bt, x)) = RefLowerBound(ref, x)
          /\ IterPos(bt, upper_bound(bt, x)) = RefUpperBound(ref, x)
\* after inserts and erases by key and by position the tree has inner nodes
\* below the root and holds both keys, one of them several times, so that
\* lower_bound and upper_bound of it differ and lie in different leaves
C10_Witness ==
    /\ erased
    /\ RootLevel = 2
    /\ \A x \in TreeKeys : RefCount(ref, x) >= 1
    /\ \E x \in TreeKeys :
          /\ bt_count(bt, x) >= leaf_slotmax + 1
          /\ lower_bound(bt, x).curr_leaf # upper_bound(bt, x).curr_leaf
          /\ IterPos(bt, upper_bound(bt, x)) = RefUpperBound(ref, x)
    /\ InOrder(bt) = ref

(***************************************************************************)
(* SpecSplit: a tree is built by inserts, split by key or by rank into two *)
(* trees, the two are joined again and the result is moved back, as        *)
(* test_multiset_split_10000 does.                                         *)
(***************************************************************************)
\* the nodes of the tree with members hdr, parents first
NodesOf(T, hdr) == IF hdr.root_ = 0 THEN <<>> ELSE PreOrder(T, hdr.root_)

\* three trees in one heap, up to addresses: when each passes verify() and
\* every node of the heap belongs to exactly one of them, the nodes are
\* numbered tree by tree in pre-order
UpToAddresses3(T, left, right) ==
    LET order == NodesOf(T, Hdr(T)) \o NodesOf(T, left) \o NodesOf(T, right)
        addr(n) == IF n = 0 THEN 0 ELSE CHOOSE i \in 1 .. Len(order) : order[i] = n
        at(hdr) == [root_ |-> addr(hdr.root_), head_leaf_ |-> addr(hdr.head_leaf_),
                    tail_leaf_ |-> addr(hdr.tail_leaf_)]
        plain(hdr) == hdr.root_ # 0 \/ hdr = NoHdr
    IN IF /\ verify(T) /\ verify(TreeAt(T, left)) /\ verify(TreeAt(T, right))
          /\ plain(Hdr(T)) /\ plain(left) /\ plain(right)
          /\ Len(order) = Cardinality(DOMAIN T.nodes)
          /\ \A i, j \in 1 .. Len(order) : order[i] = order[j] => i = j
       THEN [T |-> [nodes |-> Renumber(T, order).nodes, root_ |-> addr(T.root_),
                    head_leaf_ |-> addr(T.head_leaf_),
                    tail_leaf_ |-> addr(T.tail_leaf_), fix |-> T.fix],
             left |-> at(left), right |-> at(right)]
       ELSE [T |-> [nodes |-> T.nodes, root_ |-> T.root_,
                    head_leaf_ |-> T.head_leaf_, tail_leaf_ |-> T.tail_leaf_,
                    fix |-> T.fix],
             left |-> left, right |-> right]

\* the operations of the phase in which the tree is built
BuildOps == {"none", "insert", "erase_one", "erase_iter"}

\* copy.split(tr1, key, tr2)
Split(key) ==
    /\ lastop \in BuildOps
    /\ \E r \in {split(Entering(bt), key)} :
          \E c \in {UpToAddresses3(r.T, r.left, r.right)} :
             bt' = c.T /\ tr1' = c.left /\ tr2' = c.right
    /\ arg' = key
    /\ lastop' = "split"
    /\ UNCHANGED <<ref, erased, variant, tree, req, pe, resVars>>

\* copy.splitAt(tr1, k, tr2)
SplitAt(k) ==
    /\ lastop \in BuildOps
    /\ k <= Len(ref)
    /\ \E r \in {splitAt(Entering(bt), k)} :
          \E c \in {UpToAddresses3(r.T, r.left, r.right)} :
             bt' = c.T /\ tr1' = c.left /\ tr2' = c.right
    /\ arg' = k
    /\ lastop' = "splitAt"
    /\ UNCHANGED <<ref, erased, variant, tree, req, pe, resVars>>

\* tr1.join(tr2)
Join ==
    /\ lastop \in {"split", "splitAt", "two_trees", "insert_tr1", "insert_tr2"}
    /\ \E j \in {join(WithOther(TreeAt(Entering(bt), tr1), tr2, 0, TRUE))} :
          \E c \in {UpToAddresses3(TreeAt(j, Hdr(bt)), Hdr(j), j.other)} :
             bt' = c.T /\ tr1' = c.left /\ tr2' = c.right
    /\ lastop' = "join"
    /\ UNCHANGED <<ref, erased, arg, variant, tree, req, pe, resVars>>

\* copy = std::move(tr1)
Move ==
    /\ lastop = "join"
    /\ bt' = UpToAddresses(TreeAt(Entering(bt), tr1))
    /\ tr1' = NoHdr
    /\ lastop' = "move"
    /\ UNCHANGED <<ref, erased, tr2, arg, variant, tree, req, pe, resVars>>

NextSplit ==
    \/ \E key \in TreeKeys : lastop \in BuildOps /\ Insert(key)
    \/ \E key \in 0 .. MaxTreeKey : Split(key)
    \/ \E k \in 0 .. MaxSize : SplitAt(k)
    \/ Join
    \/ Move

SpecSplit == InitTree /\ [][NextSplit]_vars

\* the trees tr1 and tr2
Tr1 == TreeAt(bt, tr1)
Tr2 == TreeAt(bt, tr2)

\* C11: split(L, s, R) puts into L exactly the elements with key <= s and
\* into R exactly those with key > s, both in the original order, and
\* size(L) + size(R) is the size the tree had.
C11_SplitByKey ==
    lastop = "split" =>
       /\ InOrder(Tr1) = SubSeq(ref, 1, RefUpperBound(ref, arg))
       /\ InOrder(Tr2) = SubSeq(ref, RefUpperBound(ref, arg) + 1, Len(ref))
       /\ \A i \in 1 .. bt_size(Tr1) : InOrder(Tr1)[i] <= arg
       /\ \A i \in 1 .. bt_size(Tr2) : InOrder(Tr2)[i] > arg
       /\ bt_size(Tr1) + bt_size(Tr2) = Len(ref)
\* a tree with inner nodes below the root was split at a key it holds
\* several times, inside a leaf, and both sides received items
C11_Witness ==
    /\ lastop = "split"
    /\ RefCount(ref, arg) >= 2
    /\ {"split_leaf_node_lr", "split_inner_node_lr", "join_inner", "join_leaves"}
          \subseteq bt.fix
    /\ Len(ref) >= 13
    /\ bt_size(Tr1) >= 2 /\ bt_size(Tr2) >= 2
    /\ InOrder(Tr1) \o InOrder(Tr2) = ref

\* C12: splitAt(L, m, R) with 0 <= m <= size yields size(L) = m and
\* size(R) = size - m, L holding the first m elements in order and R the
\* others, also when the boundary falls inside a run of equal keys.
C12_SplitAtRank ==
    lastop = "splitAt" =>
       /\ bt_size(Tr1) = arg
       /\ bt_size(Tr2) = Len(ref) - arg
       /\ InOrder(Tr1) = SubSeq(ref, 1, arg)
       /\ InOrder(Tr2) = SubSeq(ref, arg + 1, Len(ref))
\* a tree with inner nodes below the root was split at a rank inside a run
\* of equal keys, so that items were moved back from left to right
C12_Witness ==
    /\ lastop = "splitAt"
    /\ arg > 0 /\ arg < Len(ref)
    /\ ref[arg] = ref[arg + 1]
    /\ {"split_inner_node_lr", "join_inner"} \subseteq bt.fix
    /\ Len(ref) >= 13
    /\ bt_size(Tr1) = arg
    /\ InOrder(Tr1) \o InOrder(Tr2) = ref

\* C13: splitting a tree at any key or rank into (L, R) and then calling
\* L.join(R) gives a tree equal to the original one: the same size and the
\* same elements in the same order.
C13_SplitThenJoin ==
    lastop = "join" =>
       /\ bt_size(Tr1) = Len(ref)
       /\ InOrder(Tr1) = ref
\* the two parts of a tree with inner nodes below the root were joined by
\* joining two inner nodes and making a new root
C13_Witness ==
    /\ lastop = "join"
    /\ {"join_inner", "new_root"} \subseteq bt.fix
    /\ Len(ref) >= 13
    /\ \A x \in TreeKeys : RefCount(ref, x) >= 2
    /\ InOrder(Tr1) = ref

(***************************************************************************)
(* SpecJoin: two trees tr1 and tr2 are built by inserts, no key of tr2     *)
(* less than a key of tr1, and then tr1.join(tr2) is called.  ref is the   *)
(* sequence of tr1 followed by that of tr2, arg the size of tr1.           *)
(***************************************************************************)
\* the largest number of items in tr1 and tr2 together
MaxJoined == 18

\* tr1.insert(key)
InsertTr1(key) ==
    /\ lastop \in {"two_trees", "insert_tr1", "insert_tr2"}
    /\ arg < MaxSize /\ Len(ref) < MaxJoined
    /\ \A i \in (arg + 1) .. Len(ref) : key <= ref[i]
    /\ \E t \in {insert_start(TreeAt(Entering(bt), tr1), key)} :
          \E c \in {UpToAddresses3(TreeAt(t, Hdr(bt)), Hdr(t), tr2)} :
             bt' = c.T /\ tr1' = c.left /\ tr2' = c.right
    /\ ref' = SeqInsert(ref, key)
    /\ arg' = arg + 1
    /\ lastop' = "insert_tr1"
    /\ UNCHANGED <<erased, variant, tree, req, pe, resVars>>

\* tr2.insert(key)
InsertTr2(key) ==
    /\ lastop \in {"two_trees", "insert_tr1", "insert_tr2"}
    /\ Len(ref) - arg < MaxSize /\ Len(ref) < MaxJoined
    /\ \A i \in 1 .. arg : ref[i] <= key
    /\ \E t \in {insert_start(TreeAt(Entering(bt), tr2), key)} :
          \E c \in {UpToAddresses3(TreeAt(t, Hdr(bt)), tr1, Hdr(t))} :
             bt' = c.T /\ tr1' = c.left /\ tr2' = c.right
    /\ ref' = SeqInsert(ref, key)
    /\ lastop' = "insert_tr2"
    /\ UNCHANGED <<arg, erased, variant, tree, req, pe, resVars>>

InitJoin ==
    /\ bt = EmptyTree /\ ref = <<>> /\ lastop = "two_trees" /\ erased = FALSE
    /\ tr1 = NoHdr /\ tr2 = NoHdr /\ arg = 0
    /\ variant = "single"
    /\ tree = [w \in PE |-> <<>>]
    /\ req = [kmin |-> 0, kmax |-> 0]
    /\ pe = [w \in PE |-> IdleWorker]
    /\ threshold_ = [w \in PE |-> 0]
    /\ batch_id_ = [w \in PE |-> 0]
    /\ smallest = <<>>
    /\ batch = NoBatch

NextJoin ==
    \/ \E key \in TreeKeys : InsertTr1(key)
    \/ \E key \in TreeKeys : InsertTr2(key)
    \/ Join

SpecJoin == InitJoin /\ [][NextJoin]_vars

\* C14: for any two trees A and B, of any sizes and heights (either may be
\* the taller, either may be empty), with every key of B >= every key of A,
\* A.join(B) gives a tree whose in-order sequence is that of A followed by
\* that of B, whose size is the sum of the sizes, and which passes verify().
C14_JoinConcatenates ==
    lastop = "join" =>
       /\ InOrder(Tr1) = ref
       /\ bt_size(Tr1) = Len(ref)
       /\ verify(Tr1)

\* a leaf-sized tree A was joined with a tree B two levels taller, which
\* added a leaf to the leftmost inner node of B
C14_Witness ==
    /\ lastop = "join"
    /\ arg \in leaf_slotmin .. leaf_slotmax
    /\ Len(ref) - arg >= 13
    /\ "join_leaves" \in bt.fix
    /\ Tr1.nodes[tr1.root_].level = 2
    /\ \A x \in TreeKeys : RefCount(ref, x) >= 1
    /\ tr2 = NoHdr
    /\ verify(Tr1)
    /\ InOrder(Tr1) = ref

\* the leftmost and the rightmost leaf below node n
RECURSIVE BorderLeaf(_, _, _)
BorderLeaf(T, n, last) ==
    IF is_leafnode(T.nodes[n]) THEN n
    ELSE BorderLeaf(T, ChildId(T.nodes[n], IF last THEN slotuse(T.nodes[n]) ELSE 0), last)

\* verify() and what it stands for at the two ends of the leaf list: the
\* list starts at head_leaf_, the leftmost leaf, ends at tail_leaf_, the
\* rightmost leaf, and goes no further; an empty tree has neither
WellFormed(T) ==
    /\ verify(T)
    /\ IF T.root_ = 0 THEN T.head_leaf_ = 0 /\ T.tail_leaf_ = 0
       ELSE /\ T.head_leaf_ = BorderLeaf(T, T.root_, FALSE)
            /\ T.tail_leaf_ = BorderLeaf(T, T.root_, TRUE)
            /\ T.nodes[T.head_leaf_].prev_leaf = 0
            /\ T.nodes[T.tail_leaf_].next_leaf = 0

\* C15: after split or splitAt of a valid tree both output trees pass
\* verify(): no node but the root is under half full, every subtree_size is
\* exact, the leaf list of each tree ends at both ends, and head and tail
\* are the first and the last leaf.
C15_OutputsVerify ==
    lastop \in {"split", "splitAt"} => WellFormed(Tr1) /\ WellFormed(Tr2)
\* a split inside a tree with inner nodes below the root left a border node
\* under half full, which the join of the pieces merged or refilled, and
\* gave two trees with inner nodes
C15_Witness ==
    /\ lastop = "split"
    /\ {"split_leaf_node_lr", "split_inner_node_lr"} \subseteq bt.fix
    /\ bt.fix \cap {"join_leaves_merged", "join_leaves_right", "join_inner_right",
                    "join_inner_merged"} # {}
    /\ tr1.root_ # 0 /\ Tr1.nodes[tr1.root_].level >= 1
    /\ tr2.root_ # 0 /\ Tr2.nodes[tr2.root_].level >= 1
    /\ WellFormed(Tr1) /\ WellFormed(Tr2)

\* every node of the heap is reachable from the root of exactly one of the
\* three trees, and no node was freed twice
EachNodeOwnedOnce ==
    /\ verify(bt) /\ verify(Tr1) /\ verify(Tr2)
    /\ LET order == NodesOf(bt, Hdr(bt)) \o NodesOf(bt, tr1) \o NodesOf(bt, tr2)
       IN /\ \A i, j \in 1 .. Len(order) : order[i] = order[j] => i = j
          /\ {order[i] : i \in 1 .. Len(order)} = DOMAIN bt.nodes
    /\ "double_free" \notin bt.fix

\* C20: after split or splitAt the source tree is empty; after join the
\* argument tree is empty; and every node is reachable from exactly one
\* tree, so that each node is freed exactly once.
C20_NodesMoveNotCopied ==
    /\ lastop \in {"split", "splitAt"} => bt_size(bt) = 0 /\ Hdr(bt) = NoHdr
    /\ lastop = "join" => bt_size(Tr2) = 0 /\ tr2 = NoHdr
    /\ lastop \in {"split", "splitAt", "join"} => EachNodeOwnedOnce
\* the two parts of a tree with inner nodes were joined after a split that
\* allocated and freed nodes; the joined tree owns every node
C20_Witness ==
    /\ lastop = "join"
    /\ bt.fix \cap {"join_leaves_merged", "join_inner_merged"} # {}
    /\ Len(ref) >= 13
    /\ tr1.root_ # 0 /\ Tr1.nodes[tr1.root_].level = 2
    /\ Len(NodesOf(bt, tr1)) = Cardinality(DOMAIN bt.nodes)
    /\ Hdr(bt) = NoHdr /\ tr2 = NoHdr

\* C16: find_rank(r) for 0 <= r < size returns the iterator at in-order
\* position r, rank_of on that iterator returns r, and find_rank(size)
\* returns end().
C16_FindRank ==
    /\ \A r \in 0 .. (bt_size(bt) - 1) :
          /\ find_rank(bt, r) = IterNext(bt, bt_begin(bt), r)
          /\ IterKey(bt, find_rank(bt, r)) = ref[r + 1]
          /\ rank_of(bt, find_rank(bt, r)) = r
    /\ find_rank(bt, bt_size(bt)) = bt_end(bt)
\* after inserts and erases the tree has inner nodes below the root and a
\* key in several leaves; a rank inside the run of that key, in a leaf that
\* is neither the first nor the one the run starts in, is found
C16_Witness ==
    /\ erased
    /\ RootLevel = 2
    /\ \E r \in 0 .. (bt_size(bt) - 1) :
          LET it == find_rank(bt, r)
              first == rankImpl(bt, ref[r + 1], "EXACT").iter
          IN /\ it.curr_leaf # bt.head_leaf_
             /\ it.curr_leaf # first.curr_leaf
             /\ it.curr_slot > 0
             /\ rank_of(bt, it) = r
             /\ IterPos(bt, it) = r

\* C17: rank_of_lower_bound(x) returns the number of elements < x with an
\* iterator at that position; rank_of_upper_bound(x) returns the number of
\* elements <= x with an iterator at that position (end() when the rank
\* equals size()).
C17_RankOfBounds ==
    \A x \in AnyKey :
       LET lb == rank_of_lower_bound(bt, x)
           ub == rank_of_upper_bound(bt, x)
       IN /\ lb.rank = RefLowerBound(ref, x)
          /\ lb.iter = IterNext(bt, bt_begin(bt), lb.rank) \/ bt.root_ = 0
          /\ ub.rank = RefUpperBound(ref, x)
          /\ ub.iter = IterNext(bt, bt_begin(bt), ub.rank) \/ bt.root_ = 0
          /\ lb.rank = bt_size(bt) => lb.iter = bt_end(bt)
          /\ ub.rank = bt_size(bt) => ub.iter = bt_end(bt)
\* after inserts and erases the tree has inner nodes below the root; the
\* lower bound of one key lies inside a leaf that is not the first, and the
\* upper bound of another lies before the end, more than a leaf after its
\* lower bound
C17_Witness ==
    /\ erased
    /\ RootLevel = 2
    /\ \E x \in TreeKeys :
          LET lb == rank_of_lower_bound(bt, x)
          IN /\ lb.rank > 0 /\ lb.rank < bt_size(bt)
             /\ lb.iter.curr_leaf # bt.head_leaf_
             /\ lb.iter.curr_slot > 0
             /\ lb.rank = RefLowerBound(ref, x)
    /\ \E x \in TreeKeys :
          LET lb == rank_of_lower_bound(bt, x)
              ub == rank_of_upper_bound(bt, x)
          IN /\ ub.rank < bt_size(bt)
             /\ ub.rank - lb.rank > leaf_slotmax
             /\ lb.iter.curr_leaf # ub.iter.curr_leaf
             /\ ub.rank = RefUpperBound(ref, x)

(***************************************************************************)
(* bulk_load(ibegin, iend): the leaves are filled left to right, then one  *)
(* level of inner nodes after the other is built above them.               *)
(***************************************************************************)
RECURSIVE BulkLeaves(_, _, _, _)
\* the loop over the leaves: num_items items are left for left leaves
BulkLeaves(T, items, num_items, left) ==
    IF left = 0 THEN T
    ELSE LET leaf == NewNode(T)
             use == num_items \div left
             T1 == SetNode(T, leaf, MkLeaf(SubSeq(items, 1, use), T.tail_leaf_, 0))
             T2 == IF T.tail_leaf_ # 0
                   THEN [T1 EXCEPT !.nodes[T.tail_leaf_].next_leaf = leaf]
                   ELSE [T1 EXCEPT !.head_leaf_ = leaf]
         IN BulkLeaves([T2 EXCEPT !.tail_leaf_ = leaf],
                       SubSeq(items, use + 1, Len(items)), num_items - use, left - 1)

RECURSIVE LeafPairs(_, _)
\* the leaves from leaf along next_leaf, each with its last key
LeafPairs(T, leaf) ==
    IF leaf = 0 THEN <<>>
    ELSE <<[first |-> leaf,
            second |-> NodeKey(T.nodes[leaf], slotuse(T.nodes[leaf]) - 1)]>>
         \o LeafPairs(T, T.nodes[leaf].next_leaf)

\* a level whose every parent takes a single child
BulkLevelThin(T, level, kids, left, out) ==
    [T |-> T, nextlevel |-> kids]
RECURSIVE BulkLevel(_, _, _, _, _)
\* the loop over the parents of one level: kids are the children not yet
\* under a parent, with their largest keys, for left parents; out is the part
\* of nextlevel already written
BulkLevel(T, level, kids, left, out) ==
    IF left = 0 THEN [T |-> T, nextlevel |-> out]
    ELSE LET n == NewNode(T)
             cnt == Len(kids) \div left
             T1 == SetNode(T, n,
                           MkInner(level,
                                   [s \in 1 .. (cnt - 1) |-> kids[s].second],
                                   [s \in 1 .. cnt |-> kids[s].first], 0))
             T2 == [T1 EXCEPT !.nodes[n].subtree_size =
                                  sum_subtree_size(T1, n, 0, cnt)]
         IN BulkLevel(T2, level, SubSeq(kids, cnt + 1, Len(kids)), left - 1,
                      Append(out, [first |-> n, second |-> kids[cnt].second]))

RECURSIVE BulkUp(_, _, _)
\* level 1 above the leaves, then level 2, 3, ... until one parent is left,
\* which becomes the root
BulkUp(T, level, kids) ==
    LET num_parents == (Len(kids) + (inner_slotmax + 1) - 1) \div (inner_slotmax + 1)
        r == BulkLevel(T, level, kids, num_parents, <<>>)
    IN IF num_parents = 1
       THEN [r.T EXCEPT !.root_ = r.nextlevel[1].first]
       ELSE BulkUp(r.T, level + 1, r.nextlevel)

\* bulk_load of the sorted range items into the empty tree T
bulk_load(T, items) ==
    LET num_items == Len(items)
        num_leaves == (num_items + leaf_slotmax - 1) \div leaf_slotmax
        T1 == BulkLeaves(T, items, num_items, num_leaves)
    IN IF T1.head_leaf_ = T1.tail_leaf_
       THEN [T1 EXCEPT !.root_ = T1.head_leaf_]
       ELSE BulkUp(T1, 1, LeafPairs(T1, T1.head_leaf_))

(***************************************************************************)
(* SpecBulk: a sorted vector of keys is bulk loaded into an empty tree.    *)
(***************************************************************************)
\* the longest vector loaded
MaxBulk == 26

RECURSIVE SortedVectors(_, _)
\* the non-decreasing vectors of length n over the keys 1 .. k
SortedVectors(n, k) ==
    IF k = 0 THEN (IF n = 0 THEN {<<>>} ELSE {})
    ELSE UNION {{s \o [i \in 1 .. (n - m) |-> k] : s \in SortedVectors(m, k - 1)} :
                   m \in 0 .. n}

\* the test's vector after std::sort, the tree after construction
InitBulk ==
    /\ bt = EmptyTree /\ lastop = "none" /\ erased = FALSE
    /\ ref \in UNION {SortedVectors(n, MaxTreeKey) : n \in 0 .. MaxBulk}
    /\ tr1 = NoHdr /\ tr2 = NoHdr /\ arg = 0
    /\ variant = "single"
    /\ tree = [w \in PE |-> <<>>]
    /\ req = [kmin |-> 0, kmax |-> 0]
    /\ pe = [w \in PE |-> IdleWorker]
    /\ threshold_ = [w \in PE |-> 0]
    /\ batch_id_ = [w \in PE |-> 0]
    /\ smallest = <<>>
    /\ batch = NoBatch

\* bt.bulk_load(keys.begin(), keys.end())
BulkLoad ==
    /\ lastop = "none"
    /\ bt' = bulk_load(Entering(bt), ref)
    /\ lastop' = "bulk_load"
    /\ UNCHANGED <<ref, erased, tr1, tr2, arg, variant, tree, req, pe, resVars>>

NextBulk == BulkLoad

SpecBulk == InitBulk /\ [][NextBulk]_vars

RECURSIVE InsertAll(_, _)
\* the tree after insert(q[1]), insert(q[2]), ... on T
InsertAll(T, q) ==
    IF q = <<>> THEN T
    ELSE LET T1 == insert_start(T, Head(q))
         IN IF T1.root_ # 0 THEN InsertAll(T1, Tail(q)) ELSE T1

\* C18: after bulk_load of a sorted vector of any length into an empty tree,
\* iterating the tree gives the vector, the tree equals (operator==: same
\* size, same items in order) the tree built by inserting the vector's items
\* one by one, and verify() passes.
C18_BulkLoad ==
    lastop = "bulk_load" =>
        LET one == InsertAll(EmptyTree, ref)
        IN /\ InOrder(bt) = ref
           /\ bt_size(bt) = bt_size(one)
           /\ InOrder(bt) = InOrder(one)
           /\ verify(bt)
\* a vector whose length is no multiple of the leaf capacity, loaded into a
\* tree of three levels with a key repeated across leaves
C18_Witness ==
    /\ lastop = "bulk_load"
    /\ Len(ref) % leaf_slotmax # 0
    /\ bt.root_ # 0 /\ bt.nodes[bt.root_].level = 2
    /\ \E x \in TreeKeys : RefCount(ref, x) > leaf_slotmax /\ RefCount(ref, x) < Len(ref)
    /\ InOrder(bt) = ref
    /\ verify(bt)

(***************************************************************************)
(* The duplicates of a hitting pivot.                                      *)
(***************************************************************************)
\* the pivot worker w found to hit once the global bounds arrived: its local
\* bounds b and global bounds lb, ub (hit = FALSE if no pivot hits)
HitOf(w) ==
    LET s == pe[w]
        gb == s.rcv
        hits == {i \in 0 .. (NumPivots - 1) :
                    gb[ubidx(i)] >= s.kmin /\ gb[lbidx(i)] <= s.kmax}
        i == SetMin(hits)
    IN IF variant = "single"
       THEN [hit |-> ~(gb[2] < s.kmin) /\ ~(gb[1] > s.kmax),
             b |-> s.bounds[1], lb |-> gb[1], ub |-> gb[2]]
       ELSE IF hits = {}
       THEN [hit |-> FALSE, b |-> s.bounds[1], lb |-> 0, ub |-> 0]
       ELSE [hit |-> TRUE, b |-> s.bounds[i + 1],
             lb |-> gb[lbidx(i)], ub |-> gb[ubidx(i)]]

\* the number of elements equal to the pivot on every worker, the pivot
\* being the key at the local lower bound b.lb_it of worker w; without such
\* a key on worker w the pivot is not known to w and the counts are left 0
EqualCounts(w, b) ==
    [v \in PE |-> IF b.ub_pos - b.lb_pos <= 0 THEN 0
                  ELSE RefCount(tree[v], tree[w][b.lb_it + 1])]

\* the share of worker v when want of the elements equal to the pivot are
\* handed out in rank order
Share(cnt, v, want) ==
    LET below == SumTo(cnt, v - 1)
    IN IF below + cnt[v] <= want THEN cnt[v]
       ELSE IF below >= want THEN 0
       ELSE want - below

\* worker w returns in this step, having taken from its local lower bound b
\* on its share of want, and the shares of all workers sum to want
TakesShare(w, b, want) ==
    LET cnt == EqualCounts(w, b)
    IN /\ pe'[w].pc = "done"
       /\ pe'[w].res_rank - (pe[w].min_idx + b.lb_pos) = Share(cnt, w, want)
       /\ cnt[w] > 0 =>
             SumTo([v \in PE |-> Share(cnt, v, want)], NumPE - 1) = want

\* a step of worker w that settles a hit with L < k_min <= U: after the
\* global bounds, or after the scan of find_eq_pos
C19_HitStep(w) ==
    LET h == HitOf(w)
    IN /\ (/\ Running(w, "after_bound") /\ pe'[w] # pe[w]
           /\ h.hit /\ h.lb < pe[w].kmin /\ pe[w].kmin <= h.ub)
          => \/ TakesShare(w, h.b, pe[w].kmin - h.lb)
             \/ pe'[w].pc = "after_scan"
       /\ (/\ Running(w, "after_scan") /\ pe'[w] # pe[w]
           /\ pe[w].target > 0)
          => TakesShare(w, pe[w].bounds[1], pe[w].target)

\* C19: when a pivot hits with L < k <= U (k = k_min), every worker returns
\* having included, of the elements equal to the pivot, its share of
\* want = k - L handed out in rank order (all if its inclusive prefix sum is
\* <= want, none if the prefix sum below it is >= want, else want minus the
\* prefix sum below it), and the shares sum to want; in the single-pivot and
\* in the multi-pivot variant.
C19_EqualsAllotted == [][\A w \in PE : C19_HitStep(w)]_vars

(***************************************************************************)
(* SpecEmpty: a small tree is filled and emptied again, and split at rank  *)
(* 0 in between.                                                           *)
(***************************************************************************)
\* the largest tree of SpecEmpty
MaxSmall == 6

NextEmpty ==
    \/ \E key \in TreeKeys : Len(ref) < MaxSmall /\ lastop \in BuildOps /\ Insert(key)
    \/ \E key \in TreeKeys : lastop \in BuildOps /\ EraseOne(key)
    \/ \E pos \in 0 .. (MaxSmall - 1) : lastop \in BuildOps /\ EraseIter(pos)
    \/ SplitAt(0)

SpecEmpty == InitTree /\ [][NextEmpty]_vars

\* C21: on a tree that holds no item (never filled, or emptied by erase),
\* size() is 0 and find_rank(0) is end(); after splitAt with rank 0 on such
\* a tree both left and right are empty.
C21_EmptyTree ==
    /\ (ref = <<>> /\ lastop \in BuildOps) =>
          /\ bt_size(bt) = 0
          /\ find_rank(bt, 0) = bt_end(bt)
    /\ (ref = <<>> /\ lastop = "splitAt" /\ arg = 0) =>
          /\ bt_size(Tr1) = 0 /\ InOrder(Tr1) = <<>>
          /\ bt_size(Tr2) = 0 /\ InOrder(Tr2) = <<>>
          /\ find_rank(Tr1, 0) = bt_end(Tr1)
          /\ find_rank(Tr2, 0) = bt_end(Tr2)
\* a tree emptied by erase is split at rank 0
C21_Witness ==
    ref = <<>> /\ erased /\ lastop = "splitAt" /\ arg = 0 /\ bt_size(Tr1) = 0

\* C22: on a non-empty tree ++ applied to end() gives end(), -- applied to
\* begin() gives begin(), and -- applied to end() gives the position of the
\* last element (the one reached by size() - 1 increments from begin(),
\* holding the largest key).
C22_IteratorEnds ==
    bt.root_ # 0 =>
        /\ IterNext(bt, bt_end(bt), 1) = bt_end(bt)
        /\ bt_prev(bt, bt_begin(bt)) = bt_begin(bt)
        /\ bt_prev(bt, bt_end(bt)) = IterNext(bt, bt_begin(bt), bt_size(bt) - 1)
        /\ IterKey(bt, bt_prev(bt, bt_end(bt))) = ref[Len(ref)]
        /\ bt_prev(bt, bt_end(bt)) # bt_end(bt)
C22_Witness ==
    /\ bt.root_ # 0 /\ erased
    /\ bt.head_leaf_ # bt.tail_leaf_
    /\ bt_prev(bt, bt_end(bt)).curr_leaf = bt.tail_leaf_
    /\ IterNext(bt, bt_end(bt), 1) = bt_end(bt)

C24_TrimStep(w) ==
    (Running(w, "done") /\ pe'[w].pc = "after_threshold") =>
        /\ SeqSize(tree'[w]) = pe[w].res_rank
        /\ tree'[w] = SubSeq(tree[w], 1, pe[w].res_rank)
C24_TrimKeepsRank == [][\A w \in PE : C24_TrimStep(w)]_vars

\* C25: every selection round that does not return strictly reduces
\* global_size: when a worker leaves a round by recursing (it starts the
\* next round instead of returning), the global_size of the new round is
\* smaller than that of the round it leaves; hence no call runs for ever.
C25_RoundStep(w) ==
    (/\ Running(w, "after_bound")
     /\ pe'[w].pc \in {"after_pivot", "after_term"}) =>
        pe'[w].global_size < pe[w].global_size
C25_RoundsShrink == [][\A w \in PE : C25_RoundStep(w)]_vars

\* every worker has entered the same round of select and waits in the
\* round's first collective (the all_reduce of the pivot)
RoundStart ==
    \A w \in PE : pe[w].waiting /\ pe[w].pc \in {"after_pivot", "after_term"}
\* the keys inside worker w's live range [min_idx, max_idx)
LiveKeys(w) ==
    {tree[w][i + 1] : i \in {j \in pe[w].min_idx .. (pe[w].max_idx - 1) :
                                j >= 0 /\ j < Len(tree[w])}}
\* the number of items below the live ranges, over all workers
BelowLive == SumTo([w \in PE |-> pe[w].min_idx], NumPE - 1)

\* C26: at the start of every selection round the globally k-th smallest
\* element (k the rank originally asked for) lies in some worker's live
\* range [min_idx, max_idx), and the number of elements below the live
\* ranges, summed over the workers, plus the round's k_min equals the k_min
\* originally asked for.
C26_RoundInvariant ==
    (RoundStart /\ req.kmin >= 1) =>
        /\ MergeTo(NumPE - 1)[req.kmin] \in UNION {LiveKeys(w) : w \in PE}
        /\ BelowLive < req.kmin
        /\ req.kmin <= SumTo([w \in PE |-> pe[w].max_idx], NumPE - 1)
        /\ \A w \in PE : BelowLive + pe[w].kmin = req.kmin
C26_Witness ==
    /\ RoundStart /\ req.kmin >= 2
    /\ BelowLive > 0
    /\ \E w \in PE : pe[w].max_idx < Len(tree[w])
    /\ MergeTo(NumPE - 1)[req.kmin] \in UNION {LiveKeys(w) : w \in PE}

\* the local bounds (lb_pos, ub_pos) of worker w's live range for pivot p
BoundsFor(w, p) ==
    LET g == get_bounds(FALSE, tree[w], p, pe[w].min_idx, pe[w].max_idx,
                        SeqFindRank(tree[w], pe[w].min_idx),
                        SeqFindRank(tree[w], pe[w].max_idx))
    IN <<g.lb_pos, g.ub_pos>>

\* C27: when the agreed pivot of a round is the out-of-range sentinel, the
\* round continues with the replacement pivot the workers agree on (the
\* minimum or maximum of their live-range boundary keys): the local bounds a
\* worker then contributes to the global bounds are its bounds for that
\* replacement pivot, so that the round shrinks the live range or returns.
C27_ReplacementStep(w) ==
    (/\ Running(w, "after_sentinel")
     /\ pe[w].rcv[1] \notin {KeyMin, KeyMax}
     /\ pe'[w].pc = "after_bound") =>
        pe'[w].coll.val = BoundsFor(w, pe[w].rcv[1])
C27_SentinelReplaced == [][\A w \in PE : C27_ReplacementStep(w)]_vars

(***************************************************************************)
(* Skip-ahead admission: reservoir::insert with threshold_ > 0 works       *)
(* through a batch by calls of insert_skip<true>.                          *)
(***************************************************************************)
\* the batch has at most MaxItems items with weights 1 .. MaxWeight, the
\* skip values drawn are 0 .. MaxSkip, and insert_skip<true> jumps over
\* SkipWidth items at a time (w = 32 in the source)
MaxItems == 5
MaxWeight == 2
MaxSkip == 4
SkipWidth == 2

RECURSIVE vec_sum(_, _, _)
\* vec_sum<n>(it): the sum of the weights of the n items from it on
vec_sum(items, it, n) ==
    IF n = 0 THEN 0 ELSE items[it + 1] + vec_sum(items, it + 1, n - 1)

RECURSIVE SkipBlocks(_, _)
\* insert_skip<true>: the loop that subtracts the weights of whole blocks of
\* SkipWidth items while a whole block is left before end and skip >= 0
SkipBlocks(items, st) ==
    IF st.it + (SkipWidth - 1) < Len(items) /\ st.skip >= 0
    THEN SkipBlocks(items,
                    [it |-> st.it + SkipWidth,
                     skip |-> st.skip - vec_sum(items, st.it, SkipWidth),
                     sum |-> vec_sum(items, st.it, SkipWidth),
                     prev |-> st.it,
                     consumed |-> st.consumed \cup (st.it .. (st.it + SkipWidth - 1))])
    ELSE st

RECURSIVE SkipItems(_, _)
\* insert_skip: while (++it != end && skip >= 0) skip -= it->first
SkipItems(items, st) ==
    IF st.it + 1 # Len(items) /\ st.skip >= 0
    THEN SkipItems(items, [st EXCEPT !.it = @ + 1,
                                     !.skip = @ - items[st.it + 2],
                                     !.consumed = @ \cup {st.it + 1}])
    ELSE [st EXCEPT !.it = @ + 1]

\* insert_skip<far>(it, end, threshold) with the skip value drawn: the
\* position it returns (Len(items) for end) and the positions whose weight
\* it subtracted from skip
insert_skip(far, items, it, skip) ==
    LET st0 == [it |-> it, skip |-> skip, sum |-> 0, prev |-> it, consumed |-> {}]
        b == IF far THEN SkipBlocks(items, st0) ELSE st0
        \* undo jump
        u == IF far /\ b.skip < 0
             THEN [b EXCEPT !.it = b.prev, !.skip = @ + b.sum,
                            !.consumed = @ \ (b.prev .. (b.prev + SkipWidth - 1))]
             ELSE b
    IN IF far /\ ~(b.skip < 0) /\ b.it >= Len(items)
       THEN [u EXCEPT !.it = Len(items)]
       ELSE SkipItems(items, u)

\* insert, Step 1 with threshold_ > 0: one turn of
\* while (it != end) it = insert_skip<true>(it, end, threshold_); the call
\* draws its skip value and, unless it returns end, inserts a key computed
\* from the weight at the position it returns
InsertSkip ==
    /\ batch.it # Len(batch.items)
    /\ \E skip \in 0 .. MaxSkip :
          \E r \in {insert_skip(TRUE, batch.items, batch.it, skip)} :
             /\ batch' = [batch EXCEPT !.it = r.it, !.from = batch.it,
                                       !.fresh = (batch.from = -1),
                                       !.skip = skip, !.consumed = r.consumed,
                                       !.keywt = IF r.it = Len(batch.items) THEN 0
                                                 ELSE batch.items[r.it + 1]]
             /\ IF r.it = Len(batch.items) THEN tree' = tree
                ELSE \E key \in {x \in DrawKeys : x <= threshold_[0]} :
                        tree' = [tree EXCEPT ![0] = SeqInsert(@, key)]
    /\ UNCHANGED <<variant, req, pe, threshold_, batch_id_, smallest, btVars>>

\* a worker that has completed a batch (threshold_ > 0, every tree holds
\* the threshold key) is handed the next batch
InitSkip ==
    /\ variant \in {"single", "multi"}
    /\ \E t \in DrawKeys :
          /\ threshold_ = [w \in PE |-> t]
          /\ tree = [w \in PE |-> <<t>>]
    /\ req = [kmin |-> NumPE, kmax |-> NumPE]
    /\ pe = [w \in PE |-> [IdleWorker EXCEPT !.pc = "idle"]]
    /\ batch_id_ = [w \in PE |-> 1]
    /\ smallest = <<>>
    /\ \E n \in 1 .. MaxItems :
          \E items \in [1 .. n -> 1 .. MaxWeight] :
             batch = [NoBatch EXCEPT !.items = items]
    /\ NoTree

NextSkip == InsertSkip

SpecSkip == InitSkip /\ [][NextSkip]_vars

\* the first position whose weight the last call of insert_skip had to
\* consume: the position it was called with if the item there had not been
\* examined, the one after it if that item was admitted by the call before
SkipStart == IF batch.fresh THEN batch.from ELSE batch.from + 1
\* the positions at which the weight consumed from SkipStart on exceeds the
\* skip value drawn
Crossing ==
    {j \in SkipStart .. (Len(batch.items) - 1) :
        vec_sum(batch.items, SkipStart, j - SkipStart + 1) > batch.skip}

\* C28: a call of insert_skip with the skip value S admits the first item,
\* counted from the current input position, at which the weight consumed so
\* far (the item's own included) exceeds S, and returns end if there is
\* none; it passes over no item without consuming its weight; the key it
\* inserts is computed from the weight of the item it admits.
C28_SkipAdmits ==
    batch.from >= 0 =>
        /\ batch.it = IF Crossing = {} THEN Len(batch.items) ELSE SetMin(Crossing)
        /\ \A j \in SkipStart .. (batch.it - 1) : j \in batch.consumed
        /\ batch.it < Len(batch.items) => batch.keywt = batch.items[batch.it + 1]

\* the keys in any worker's tree
KeptKeys == UNION {{tree[w][i] : i \in 1 .. Len(tree[w])} : w \in PE}

\* C29: at the end of every batch every worker's threshold equals the
\* largest key present in any worker's tree after the trim, 0 if all trees
\* are empty; so all workers hold the same threshold and every key in every
\* tree is at most the threshold.
C29_Threshold ==
    BatchComplete =>
        /\ \A w \in PE : threshold_[w] = SetMax({0} \cup KeptKeys)
        /\ \A w \in PE : threshold_[w] = threshold_[0]
        /\ \A w \in PE : \A x \in KeptKeys : x <= threshold_[w]
C29_Witness ==
    /\ BatchComplete /\ batch_id_[0] = 2
    /\ \E w \in PE : tree[w] # <<>> /\ tree[w][Len(tree[w])] < threshold_[w]

\* worker w is inside a round of select
InRound(w) == pe[w].pc \in {"after_term", "after_pivot", "after_sentinel", "after_bound"}
\* the reads through min_it (termination case, replacement of the sentinel
\* max) and through find_rank for the pivot draws stay inside the tree
LiveRangeInTree(w) ==
    pe[w].max_idx > pe[w].min_idx =>
        pe[w].min_idx >= 0 /\ pe[w].max_idx <= SeqSize(tree[w])
\* get_bounds is about to replace the sentinel min by the key at max_it
ReadsMaxIt(w) ==
    /\ Running(w, "after_pivot") /\ variant = "single"
    /\ pe[w].rcv[1] = KeyMin /\ pe[w].max_idx > pe[w].min_idx

\* C30: during a selection every key read goes through an iterator that
\* designates an existing element: the live range the pivots and the
\* boundary key at min_it are read from lies inside the tree, and when the
\* sentinel pivot is replaced by the key at max_it, max_it is not end().
C30_NoEndDeref ==
    \A w \in PE :
        /\ InRound(w) => LiveRangeInTree(w)
        /\ ReadsMaxIt(w) => SeqFindRank(tree[w], pe[w].max_idx) < SeqSize(tree[w])

\* the points of a worker inside or after a selection round
RoundOrResult ==
    {"after_term", "after_pivot", "after_sentinel", "after_bound", "after_scan", "done"}

\* C31 as stated: when the requested k_min exceeds the combined size of the
\* workers' trees, no worker returns a result or enters a selection round.
C31_AbortsAnyRequest ==
    req.kmin > GlobalSize => \A w \in PE : pe[w].pc \notin RoundOrResult

\* C31: when the request is a range (k_min <= k_max) whose k_min exceeds the
\* combined size of the workers' trees, no worker returns a result or enters
\* a selection round: a worker is before the size check or has aborted at it.
C31_AbortsAtSizeCheck ==
    (req.kmin > GlobalSize /\ req.kmin <= req.kmax) =>
        \A w \in PE : /\ pe[w].pc \in {"start", "after_size", "dead"}
                      /\ pe[w].pc = "after_size" =>
                            (pe[w].waiting \/ pe[w].rcv = <<GlobalSize>>)
C31_Witness ==
    /\ req.kmin > GlobalSize /\ req.kmin <= req.kmax /\ GlobalSize > 0
    /\ \A w \in PE : pe[w].pc = "dead"

\* the sizes of the workers' live ranges, summed
LiveSizeSum == SumTo([w \in PE |-> pe[w].max_idx - pe[w].min_idx], NumPE - 1)

\* C32, first part: at the start of every selection round the tracked
\* global_size is the sum over the workers of max_idx - min_idx.
C32_GlobalSizeIsLiveSum ==
    RoundStart => \A w \in PE : pe[w].global_size = LiveSizeSum

\* C32, second part: from one round to the next global_size does not
\* increase, min_idx does not decrease and max_idx does not increase.
C32_RoundStep(w) ==
    (/\ Running(w, "after_bound")
     /\ pe'[w].pc \in {"after_pivot", "after_term"}) =>
        /\ pe'[w].global_size <= pe[w].global_size
        /\ pe'[w].min_idx >= pe[w].min_idx
        /\ pe'[w].max_idx <= pe[w].max_idx
C32_Monotone == [][\A w \in PE : C32_RoundStep(w)]_vars

\* C32: both parts, the first one stated of the state every step leads to
\* (no round has started in an initial state).
C32_LiveRanges ==
    [][C32_GlobalSizeIsLiveSum' /\ \A w \in PE : C32_RoundStep(w)]_vars
C32_Witness ==
    /\ RoundStart /\ pe[0].global_size = LiveSizeSum
    /\ pe[0].global_size < GlobalSize
    /\ \E w \in PE : pe[w].min_idx > 0
    /\ \E w \in PE : pe[w].max_idx < Len(tree[w]) /\ pe[w].max_idx > pe[w].min_idx

\* size_thresh of the first and of the second loop of Step 1
FillLimit == Max2((3 * size_) \div 2, size_ + ThreshSlack1)
CutLimit == Max2((11 * size_) \div 10, size_ + ThreshSlack2)

\* the trees Step 1 can leave when worker w, holding threshold 0, is handed
\* a batch of n items
AfterStep1(w, n) == {st \in Step1(tree[w], 0, n) : ~st.dead}

\* C33: a batch processed with threshold 0 never takes the worker's tree
\* above max(3k/2, k + 500) items, however long the batch is: while that
\* size is not reached every item is admitted with a fresh key, and a batch
\* that goes on after it is reached leaves at most max(11k/10, k + 250)
\* items, the tree being cut back to k whenever it reaches that size.
C33_BoundedFill ==
    \A w \in PE :
        (Running(w, "idle") /\ threshold_[w] = 0 /\ batch_id_[w] < NumBatches) =>
            \A n \in 0 .. MaxBatch : \A st \in AfterStep1(w, n) :
                /\ SeqSize(st.tree) <= FillLimit
                /\ n <= FillLimit - SeqSize(tree[w]) =>
                      SeqSize(st.tree) = SeqSize(tree[w]) + n
                /\ n > FillLimit - SeqSize(tree[w]) =>
                      SeqSize(st.tree) <= CutLimit
C33_Witness ==
    /\ \A w \in PE : pe[w].pc = "start" /\ threshold_[w] = 0
    /\ SeqSize(tree[0]) = FillLimit
    /\ SeqSize(tree[1]) = CutLimit /\ CutLimit < FillLimit

\* C34: once a worker's threshold is positive, the threshold it takes at the
\* end of a batch is never larger than the one it held during the batch.
C34_ThresholdStep(w) ==
    (Running(w, "after_threshold") /\ threshold_[w] > 0) =>
        threshold_'[w] <= threshold_[w]
C34_ThresholdNeverGrows == [][\A w \in PE : C34_ThresholdStep(w)]_vars
C34_Witness ==
    \E w \in PE :
        /\ Running(w, "after_threshold") /\ threshold_[w] > 0
        /\ pe[w].rcv[1] > 0 /\ pe[w].rcv[1] < threshold_[w]

\* C35: called with the same skip value at the same input position,
\* insert_skip with window batching (far) returns the same position, that
\* is admits the same item or none, as the element-wise insert_skip.
C35_WindowsAgree ==
    batch.it # Len(batch.items) =>
        \A skip \in 0 .. MaxSkip :
            insert_skip(TRUE, batch.items, batch.it, skip).it
                = insert_skip(FALSE, batch.items, batch.it, skip).it

(***************************************************************************)
(* erase(iterator): the entry removed is the one the iterator designates.  *)
(***************************************************************************)
RECURSIVE LeafKeysFrom(_, _, _)
\* the key arrays of the leaves from leaf on along next_leaf
LeafKeysFrom(T, leaf, fuel) ==
    IF leaf = 0 \/ fuel = 0 THEN <<>>
    ELSE <<T.nodes[leaf].slotkey>> \o LeafKeysFrom(T, T.nodes[leaf].next_leaf, fuel - 1)
\* the key arrays of all leaves, from head_leaf_ on
LeafKeys(T) == LeafKeysFrom(T, T.head_leaf_, MaxSize + 1)

RECURSIVE LeafIndex(_, _, _, _)
\* the place of leaf in the chain of leaves, counted from 1 at from
LeafIndex(T, from, leaf, fuel) ==
    IF from = leaf \/ from = 0 \/ fuel = 0 THEN 1
    ELSE 1 + LeafIndex(T, T.nodes[from].next_leaf, leaf, fuel - 1)

\* what erase(iterator) leaves behind, the iterator pos steps after begin():
\* one entry less, the other entries in their order, and, where the leaf of
\* the iterator keeps at least the minimum of entries, that leaf without the
\* slot of the iterator and every other leaf as it was
C36_After(pos) ==
    LET it == IterNext(bt, bt_begin(bt), pos)
        i == LeafIndex(bt, bt.head_leaf_, it.curr_leaf, MaxSize + 1)
    IN \A T \in {erase_iter(Entering(bt), [curr_leaf |-> it.curr_leaf,
                                           curr_slot |-> it.curr_slot,
                                           key |-> IterKey(bt, it)])} :
          /\ bt_size(T) = bt_size(bt) - 1
          /\ InOrder(T) = SeqRemoveAt(InOrder(bt), pos)
          /\ slotuse(bt.nodes[it.curr_leaf]) > leaf_slotmin =>
                LeafKeys(T) = [LeafKeys(bt) EXCEPT ![i] = SeqRemoveAt(@, it.curr_slot)]

MaxAssign == 1

RECURSIVE clear_recursive(_, _)
\* clear_recursive(n): frees the nodes below n, children left to right
clear_recursive(T, n) ==
    LET N == T.nodes[n]
        freed[slot \in 0 .. slotuse(N) + 1] ==
            IF slot = 0 THEN T
            ELSE FreeNode(clear_recursive(freed[slot - 1], ChildId(N, slot - 1)),
                          ChildId(N, slot - 1))
    IN IF is_leafnode(N) THEN T ELSE freed[slotuse(N) + 1]

\* clear()
clear(T) ==
    IF T.root_ # 0
    THEN TreeAt(FreeNode(clear_recursive(T, T.root_), T.root_), NoHdr)
    ELSE T

\* a copy_recursive that copies nothing: the node itself
ShallowCopy(T, n) == [T |-> T, node |-> n]
RECURSIVE copy_recursive(_, _)
\* copy_recursive(n) called on the tree T, n a node of another tree in the
\* same heap: the tree with the copy of the nodes from n on down, the new
\* leaves appended to its chain of leaves, and the copy of n
copy_recursive(T, n) ==
    LET N == T.nodes[n]
        new == NewNode(T)
        newleaf == IF T.head_leaf_ = 0
                   THEN [SetNode(T, new, MkLeaf(N.slotkey, 0, 0))
                         EXCEPT !.head_leaf_ = new, !.tail_leaf_ = new]
                   ELSE [SetNode(T, new, MkLeaf(N.slotkey, T.tail_leaf_, 0))
                         EXCEPT !.nodes[T.tail_leaf_].next_leaf = new,
                                !.tail_leaf_ = new]
        newinner == SetNode(T, new, MkInner(N.level, N.slotkey,
                                            [c \in DOMAIN N.childid |-> 0],
                                            N.subtree_size))
        copied[slot \in 0 .. slotuse(N) + 1] ==
            IF slot = 0 THEN newinner
            ELSE Bind(copy_recursive(copied[slot - 1], ChildId(N, slot - 1)),
                      LAMBDA c : [c.T EXCEPT !.nodes[new].childid[slot] = c.node])
    IN IF is_leafnode(N) THEN [T |-> newleaf, node |-> new]
       ELSE [T |-> copied[slotuse(N) + 1], node |-> new]

\* BTree(const BTree& other): T is the heap of other with the members of
\* the tree under construction, root_ = head_leaf_ = tail_leaf_ = nullptr
CopyConstructed(T, other) ==
    IF bt_size(TreeAt(T, other)) # 0
    THEN Bind(copy_recursive(T, other.root_), LAMBDA c : [c.T EXCEPT !.root_ = c.node])
    ELSE T

\* operator=(const BTree& other) on the tree T, other another object
CopyAssigned(T, other) ==
    Bind(clear(T), LAMBDA t :
       IF bt_size(TreeAt(t, other)) # 0
       THEN Bind(copy_recursive(t, other.root_), LAMBDA c : [c.T EXCEPT !.root_ = c.node])
       ELSE t)

RECURSIVE EqualFrom(_, _, _, _, _)
\* std::equal(first1, end(), first2) over the items of T1 and T2, n items
\* of T1 left
EqualFrom(T1, it1, T2, it2, n) ==
    IF n = 0 THEN TRUE
    ELSE /\ IterKey(T1, it1) = IterKey(T2, it2)
         /\ \E next1 \in {IterNext(T1, it1, 1)}, next2 \in {IterNext(T2, it2, 1)} :
               EqualFrom(T1, next1, T2, next2, n - 1)
\* operator==
bt_equal(T1, T2) ==
    /\ bt_size(T1) = bt_size(T2)
    /\ EqualFrom(T1, bt_begin(T1), T2, bt_begin(T2), bt_size(T1))

Sides == {"orig", "copy"}
\* the members of the tree on a side, and of the tree on the other side
OnSide(side) == IF side = "orig" THEN Hdr(bt) ELSE tr1
OtherSide(side) == IF side = "orig" THEN tr1 ELSE Hdr(bt)
\* the heap t in which an operation has left the tree of side, the other
\* tree and third as they were, up to addresses
Placed(t, side, third) ==
    IF side = "orig" THEN UpToAddresses3(t, tr1, third)
    ELSE UpToAddresses3(TreeAt(t, Hdr(bt)), Hdr(t), third)

\* the operations after which SpecCopy modifies a tree, and those that
\* modify the original and the copy
Copied == {"copy", "assign"}
ModOps(side) == {"insert_" \o side, "erase_" \o side, "clear_" \o side}

\* BTree copy(orig)
CopyConstruct ==
    /\ lastop \in BuildOps
    /\ \E t \in {CopyConstructed(TreeAt(Entering(bt), NoHdr), Hdr(bt))} :
          \E c \in {UpToAddresses3(TreeAt(t, Hdr(bt)), Hdr(t), NoHdr)} :
             bt' = c.T /\ tr1' = c.left /\ tr2' = c.right
    /\ lastop' = "copy"
    /\ UNCHANGED <<ref, erased, arg, variant, tree, req, pe, resVars>>

\* side = other side, after one of the two trees was modified
CopyAssign(side) ==
    /\ lastop \in ModOps("orig") \cup ModOps("copy")
    /\ arg < MaxAssign
    /\ \E t \in {CopyAssigned(TreeAt(Entering(bt), OnSide(side)), OtherSide(side))} :
          \E c \in {Placed(t, side, tr2)} :
             bt' = c.T /\ tr1' = c.left /\ tr2' = c.right
    /\ arg' = arg + 1
    /\ lastop' = "assign"
    /\ UNCHANGED <<ref, erased, variant, tree, req, pe, resVars>>

\* side.insert(key)
InsertIn(side, key) ==
    /\ lastop \in Copied
    /\ bt_size(TreeAt(bt, OnSide(side))) < MaxSize
    /\ \E t \in {insert_start(TreeAt(Entering(bt), OnSide(side)), key)} :
          \E c \in {Placed(t, side, tr2)} :
             bt' = c.T /\ tr1' = c.left /\ tr2' = c.right
    /\ lastop' = "insert_" \o side
    /\ UNCHANGED <<ref, erased, arg, variant, tree, req, pe, resVars>>

\* side.erase_one(key)
EraseIn(side, key) ==
    /\ lastop \in Copied
    /\ \E t \in {erase_one(TreeAt(Entering(bt), OnSide(side)), key)} :
          \E c \in {Placed(t, side, tr2)} :
             bt' = c.T /\ tr1' = c.left /\ tr2' = c.right
    /\ lastop' = "erase_" \o side
    /\ UNCHANGED <<ref, erased, arg, variant, tree, req, pe, resVars>>

\* side.clear()
ClearIn(side) ==
    /\ lastop \in Copied
    /\ \E t \in {clear(TreeAt(Entering(bt), OnSide(side)))} :
          \E c \in {Placed(t, side, tr2)} :
             bt' = c.T /\ tr1' = c.left /\ tr2' = c.right
    /\ lastop' = "clear_" \o side
    /\ UNCHANGED <<ref, erased, arg, variant, tree, req, pe, resVars>>

\* side.split(left, key, right) with two empty trees left and right: left
\* is tr2 afterwards, the members of right are kept in arg, and no operation
\* follows
SplitIn(side, key) ==
    /\ lastop \in Copied
    /\ \E r \in {split(TreeAt(Entering(bt), OnSide(side)), key)} :
          /\ bt' = IF side = "orig" THEN r.T ELSE TreeAt(r.T, Hdr(bt))
          /\ tr1' = IF side = "orig" THEN tr1 ELSE Hdr(r.T)
          /\ tr2' = r.left
          /\ arg' = r.right
    /\ lastop' = "split_" \o side
    /\ UNCHANGED <<ref, erased, variant, tree, req, pe, resVars>>

NextCopy ==
    \/ \E key \in TreeKeys : lastop \in BuildOps /\ Insert(key)
    \/ CopyConstruct
    \/ \E side \in Sides : CopyAssign(side)
    \/ \E side \in Sides, key \in TreeKeys : InsertIn(side, key)
    \/ \E side \in Sides, key \in TreeKeys : EraseIn(side, key)
    \/ \E side \in Sides : ClearIn(side)
    \/ \E side \in Sides, key \in 0 .. MaxTreeKey : SplitIn(side, key)

SpecCopy == InitTree /\ [][NextCopy]_vars

\* the nodes of the tree with members hdr
NodeSet(T, hdr) == {NodesOf(T, hdr)[i] : i \in 1 .. Len(NodesOf(T, hdr))}
\* the copy just made: both trees pass verify(), no node belongs to both,
\* and the two compare equal
C37_Fresh ==
    /\ verify(TreeAt(bt, tr1)) /\ verify(bt)
    /\ NodeSet(bt, tr1) \cap NodeSet(bt, Hdr(bt)) = {}
    /\ bt_equal(TreeAt(bt, tr1), bt) /\ bt_equal(bt, TreeAt(bt, tr1))
\* the tree with members before, after: same contents, verify() passes
C37_Kept(before, after) ==
    /\ verify(TreeAt(bt, before))
    /\ InOrder(TreeAt(bt', after)) = InOrder(TreeAt(bt, before))
    /\ verify(TreeAt(bt', after))

\* C37: a tree produced by copy construction or copy assignment compares
\* equal to the original, satisfies verify(), and shares no node with it:
\* inserting into, erasing from, splitting or clearing either tree
\* afterwards leaves the other tree's contents and invariants unchanged.
C37_CopyIsIndependent ==
    [][/\ lastop' \in Copied => C37_Fresh'
       /\ lastop' \in ModOps("orig") \cup {"split_orig"} => C37_Kept(tr1, tr1')
       /\ lastop' \in ModOps("copy") \cup {"split_copy"} => C37_Kept(Hdr(bt), Hdr(bt'))]_vars
\* after a copy assignment onto a tree that had been modified, one of the
\* two trees, which have inner nodes, was modified again and the other one
\* still has the contents both had
C37_Witness ==
    /\ lastop \in ModOps("orig") \cup ModOps("copy")
    /\ arg = 1
    /\ bt.root_ # 0 /\ tr1.root_ # 0
    /\ bt.nodes[bt.root_].level >= 2 /\ bt.nodes[tr1.root_].level >= 2
    /\ InOrder(bt) # InOrder(TreeAt(bt, tr1))

====
